---- MODULE Spec2Model ----
(***************************************************************************)
(* A model of the secure persistence subsystem of game-macro-assistant:    *)
(*   - MacroFileManager   (src/src/core/file_encryption.py)                *)
(*   - EncryptionService  (src/src/data/encryption/encryption_service.py)  *)
(*   - FileSystemMacroRepository                                           *)
(*                        (src/src/data/repositories/...)                  *)
(*   - BackupManager      (src/src/data/backup/backup_manager.py)          *)
(*   - MacroRecording     (src/src/core/macro_data.py)                     *)
(* The file system is a map from paths to byte contents.  Cryptographic    *)
(* primitives of the `cryptography` package are modelled symbolically: a   *)
(* sealed box opens only under the key and nonce it was sealed with.       *)
(***************************************************************************)
EXTENDS Naturals, Integers, Sequences, FiniteSets, TLC

VARIABLES
    fs,                 \* the files on disk: path -> byte content
    dirs,               \* the directories that exist
    password_attempts,  \* MacroFileManager._password_attempts of the open dialog
    now,                \* int(time.time())
    last,               \* the last call made: its arguments and its outcome
    g_pw_fails,         \* history: counted (password) failures per path since a success
    g_all_fails,        \* history: failed loads of any kind per path since a success
    g_ever_locked,      \* history: paths whose counter has reached 3 in this process
    g_was_reset,        \* history: paths whose non-zero counter a success removed
    g_origin,           \* history: path -> what the last encrypt-and-write sealed
    g_track,            \* history: the backup whose restore round trip is followed
    g_created,          \* history: per path, the backups create_backup made, oldest first
    flow,               \* FileDialogManager.load_macro in progress: where it waits
    inflight,           \* a save of another thread between its open and its write
    icm,                \* the InputCaptureManager and the listeners it started
    cb,                 \* per listener thread, the event of a callback that is about to append
    urm,                \* the UndoRedoManager of the visual editor
    ld,                 \* per thread, its position inside load_macro_file
    ctl,                \* the RecordingController and its monitor thread
    roc                 \* a macro's operation list and the OperationReorderCommand on it

vars == <<fs, dirs, password_attempts, now, last, g_pw_fails, g_all_fails,
          g_ever_locked, g_was_reset, g_origin, g_track, g_created, flow,
          inflight,
          icm,
          cb,
          urm,
          ld,
          ctl,
          roc>>

-----------------------------------------------------------------------------
(* Bounds of the model *)

\* the clock stops advancing here
MaxTime == 4
\* the history counters g_pw_fails and g_all_fails saturate here
MaxFails == 3

-----------------------------------------------------------------------------
(* Python values.  Every value carries its type, so that a tuple and a list *)
(* with the same items differ, as they do in Python.                        *)

PNone == [t |-> "none"]
PStr(s) == [t |-> "str", v |-> s]
PNum(n) == [t |-> "num", v |-> n]
PBool(b) == [t |-> "bool", v |-> b]
PBytes(s) == [t |-> "bytes", v |-> s]
PHex(s) == [t |-> "hexstr", v |-> s]
PList(s) == [t |-> "list", v |-> s]
PTuple(s) == [t |-> "tuple", v |-> s]
PDict(f) == [t |-> "dict", v |-> f]

EmptyDict == PDict(<<>>)

\* Python truthiness of a value
Truthy(x) ==
    CASE x.t = "none" -> FALSE
      [] x.t = "bool" -> x.v
      [] x.t = "num" -> x.v # 0
      [] x.t = "float" -> x.v # "0.0"
      [] x.t = "str" -> x.v # ""
      [] x.t \in {"bytes", "hexstr", "list", "tuple"} -> Len(x.v) > 0
      [] x.t = "dict" -> DOMAIN x.v # {}
      [] OTHER -> TRUE

\* json.dumps: which values it accepts (bytes raise TypeError)
RECURSIVE JsonSerializable(_)
JsonSerializable(x) ==
    CASE x.t \in {"list", "tuple"} ->
             \A i \in DOMAIN x.v : JsonSerializable(x.v[i])
      [] x.t = "dict" -> \A k \in DOMAIN x.v : JsonSerializable(x.v[k])
      [] x.t = "bytes" -> FALSE
      [] OTHER -> TRUE

\* json.dumps followed by json.loads of a serializable value: a tuple is
\* written as a JSON array and read back as a list; a hex string is a string.
RECURSIVE JsonTree(_)
JsonTree(x) ==
    CASE x.t \in {"list", "tuple"} ->
             PList([i \in DOMAIN x.v |-> JsonTree(x.v[i])])
      [] x.t = "dict" -> PDict([k \in DOMAIN x.v |-> JsonTree(x.v[k])])
      [] OTHER -> x

\* The text json.dumps writes, and bytes that are no JSON text at all
JsonText(tree) == [t |-> "json", v |-> tree]
NotJson == [t |-> "notjson"]

json_dumps(x) == JsonText(JsonTree(x))

\* json.loads: [err, val]
json_loads(text) ==
    IF text.t = "json" THEN [err |-> "none", val |-> text.v]
    ELSE [err |-> "JSONDecodeError", val |-> PNone]

\* a size of the serialized text in bytes (at least 2 for any JSON document
\* json.dumps writes for a container, 1 per scalar)
RECURSIVE JsonSize(_)
RECURSIVE SumSizes(_, _)
SumSizes(f, ks) ==
    IF ks = {} THEN 0
    ELSE LET k == CHOOSE k \in ks : TRUE
         IN JsonSize(f[k]) + SumSizes(f, ks \ {k})
JsonSize(x) ==
    IF x.t \in {"list", "dict"} THEN 2 + SumSizes(x.v, DOMAIN x.v) ELSE 1

TextSize(text) == IF text.t = "json" THEN JsonSize(text.v) ELSE 0

-----------------------------------------------------------------------------
(* Access to Python values, with the exception Python raises               *)

Ok(v) == [err |-> "none", val |-> v]
Raise(e) == [err |-> e, val |-> PNone]

PFloat(s) == [t |-> "float", v |-> s]

\* data[k]
Subscript(data, k) ==
    IF data.t = "dict"
    THEN IF k \in DOMAIN data.v THEN Ok(data.v[k]) ELSE Raise("KeyError")
    ELSE Raise("TypeError")

\* data.get(k, default)
GetOr(data, k, default) ==
    IF data.t = "dict"
    THEN Ok(IF k \in DOMAIN data.v THEN data.v[k] ELSE default)
    ELSE Raise("AttributeError")

\* k in data
Contains(data, k) ==
    CASE data.t = "dict" -> Ok(PBool(k \in DOMAIN data.v))
      [] data.t \in {"list", "tuple"} ->
             Ok(PBool(\E i \in DOMAIN data.v : data.v[i] = PStr(k)))
      [] data.t = "str" -> Ok(PBool(data.v = k))  \* substring, for the strings used
      [] OTHER -> Raise("TypeError")

\* del data[k], for a dictionary that holds k
DelKey(data, k) == PDict([q \in (DOMAIN data.v) \ {k} |-> data.v[q]])

\* data[k] = v, for a dictionary
SetKey(data, k, v) == PDict((k :> v) @@ data.v)

RECURSIVE SetToSeq(_)
SetToSeq(S) ==
    IF S = {} THEN <<>>
    ELSE LET x == CHOOSE x \in S : TRUE IN <<x>> \o SetToSeq(S \ {x})

\* iter(x): the items a for loop visits
Iterate(x) ==
    CASE x.t \in {"list", "tuple"} -> Ok(x.v)
      [] x.t = "dict" ->
             LET ks == SetToSeq(DOMAIN x.v)
             IN Ok([i \in DOMAIN ks |-> PStr(ks[i])])
      [] x.t = "str" -> Ok(IF x.v = "" THEN <<>> ELSE <<PStr(x.v)>>)
      [] OTHER -> Raise("TypeError")

-----------------------------------------------------------------------------
(* core/macro_data.py: the recording and its dictionary form                *)

OperationTypes == {"mouse_click", "mouse_move", "key_press", "key_release",
                   "wait", "screen_condition"}
MouseButtons == {"left", "right", "middle"}

Enum(cls, v) == [t |-> cls, v |-> v]

Position(x, y) == [t |-> "Position", x |-> x, y |-> y]
MouseOperation(button, position, action) ==
    [t |-> "MouseOperation", button |-> button, position |-> position,
     action |-> action]
KeyboardOperation(key, action, modifiers) ==
    [t |-> "KeyboardOperation", key |-> key, action |-> action,
     modifiers |-> modifiers]
ScreenCondition(image_data, region, threshold, timeout) ==
    [t |-> "ScreenCondition", image_data |-> image_data, region |-> region,
     threshold |-> threshold, timeout |-> timeout]

\* OperationBlock.__post_init__: TRUE when it raises ValueError
OperationBlockInvalid(operation_type, mouse_op, keyboard_op, screen_condition) ==
    IF operation_type.v \in {"mouse_click", "mouse_move"}
    THEN mouse_op = PNone
    ELSE IF operation_type.v \in {"key_press", "key_release"}
    THEN keyboard_op = PNone
    ELSE IF operation_type.v = "screen_condition"
    THEN screen_condition = PNone
    ELSE FALSE

OperationBlock(id, operation_type, timestamp, mouse_op, keyboard_op, screen_condition, delay_after) ==
    [t |-> "OperationBlock", id |-> id, operation_type |-> operation_type,
     timestamp |-> timestamp, mouse_op |-> mouse_op, keyboard_op |-> keyboard_op,
     screen_condition |-> screen_condition, delay_after |-> delay_after]

\* MacroRecording(...) with its __post_init__ at time clock
MacroRecording(name, created_at, operations, metadata, clock) ==
    [t |-> "MacroRecording", name |-> name,
     created_at |-> IF created_at \in {PNum(0), [t |-> "float", v |-> "0.0"]}
                    THEN PNum(clock) ELSE created_at,
     operations |-> operations,
     metadata |-> IF Truthy(metadata) THEN metadata ELSE EmptyDict]

Position_to_dict(self) == PDict([x |-> self.x, y |-> self.y])

MouseOperation_to_dict(self) ==
    PDict([button |-> PStr(self.button.v),
           position |-> Position_to_dict(self.position),
           action |-> self.action])

KeyboardOperation_to_dict(self) ==
    PDict([key |-> self.key, action |-> self.action,
           modifiers |-> self.modifiers])

ScreenCondition_to_dict(self) ==
    PDict([image_data |-> IF Truthy(self.image_data)
                          THEN PHex(self.image_data.v) ELSE PNone,
           region |-> self.region,
           threshold |-> self.threshold,
           timeout |-> self.timeout])

OperationBlock_to_dict(self) ==
    LET base == [id |-> self.id,
                 operation_type |-> PStr(self.operation_type.v),
                 timestamp |-> self.timestamp,
                 delay_after |-> self.delay_after]
        m == IF Truthy(self.mouse_op)
             THEN [mouse_op |-> MouseOperation_to_dict(self.mouse_op)] ELSE <<>>
        k == IF Truthy(self.keyboard_op)
             THEN [keyboard_op |-> KeyboardOperation_to_dict(self.keyboard_op)]
             ELSE <<>>
        c == IF Truthy(self.screen_condition)
             THEN [screen_condition |->
                       ScreenCondition_to_dict(self.screen_condition)]
             ELSE <<>>
    IN PDict(c @@ k @@ m @@ base)

MacroRecording_to_dict(self) ==
    PDict([name |-> self.name,
           created_at |-> self.created_at,
           operations |-> PList([i \in DOMAIN self.operations.v |->
                                OperationBlock_to_dict(self.operations.v[i])]),
           metadata |-> self.metadata])

\* the rest of a computation runs on the value of r unless r is an exception
Bind(r, F(_)) == IF r.err # "none" THEN r ELSE F(r.val)

Position_from_dict(data) ==
    Bind(Subscript(data, "x"), LAMBDA x :
    Bind(Subscript(data, "y"), LAMBDA y :
    Ok(Position(x, y))))

\* MouseButton(value)
MouseButton_of(value) ==
    IF value.t = "str" /\ value.v \in MouseButtons
    THEN Ok(Enum("MouseButton", value.v)) ELSE Raise("ValueError")

\* OperationType(value)
OperationType_of(value) ==
    IF value.t = "str" /\ value.v \in OperationTypes
    THEN Ok(Enum("OperationType", value.v)) ELSE Raise("ValueError")

MouseOperation_from_dict(data) ==
    Bind(Subscript(data, "button"), LAMBDA b :
    Bind(MouseButton_of(b), LAMBDA button :
    Bind(Subscript(data, "position"), LAMBDA p :
    Bind(Position_from_dict(p), LAMBDA position :
    Bind(Subscript(data, "action"), LAMBDA action :
    Ok(MouseOperation(button, position, action)))))))

KeyboardOperation_from_dict(data) ==
    Bind(Subscript(data, "key"), LAMBDA key :
    Bind(Subscript(data, "action"), LAMBDA action :
    Bind(GetOr(data, "modifiers", PList(<<>>)), LAMBDA modifiers :
    Ok(KeyboardOperation(key, action, modifiers)))))

\* bytes.fromhex(x)
FromHex(x) ==
    CASE x.t = "hexstr" -> Ok(PBytes(x.v))
      [] x.t = "str" -> Raise("ValueError")
      [] OTHER -> Raise("TypeError")

ScreenCondition_from_dict(data) ==
    Bind(GetOr(data, "image_data", PNone), LAMBDA g :
    Bind(IF Truthy(g) THEN Bind(Subscript(data, "image_data"), FromHex)
         ELSE Ok(PBytes(<<>>)), LAMBDA image_data :
    Bind(GetOr(data, "region", PNone), LAMBDA region :
    Bind(GetOr(data, "threshold", PFloat("0.8")), LAMBDA threshold :
    Bind(GetOr(data, "timeout", PFloat("5.0")), LAMBDA timeout :
    Ok(ScreenCondition(image_data, region, threshold, timeout)))))))

\* X.from_dict(data[k]) if k in data else None
Optional_from_dict(data, k, cls) ==
    Bind(Contains(data, k), LAMBDA has :
    IF has.v
    THEN Bind(Subscript(data, k), LAMBDA d :
              CASE cls = "MouseOperation" -> MouseOperation_from_dict(d)
                [] cls = "KeyboardOperation" -> KeyboardOperation_from_dict(d)
                [] OTHER -> ScreenCondition_from_dict(d))
    ELSE Ok(PNone))

\* cls(...) of OperationBlock.from_dict: __post_init__ may raise ValueError
OperationBlock_checked(block) ==
    IF OperationBlockInvalid(block.operation_type, block.mouse_op,
                             block.keyboard_op, block.screen_condition)
    THEN Raise("ValueError")
    ELSE Ok(block)

OperationBlock_from_dict(data) ==
    Bind(Optional_from_dict(data, "mouse_op", "MouseOperation"),
         LAMBDA mouse_op :
    Bind(Optional_from_dict(data, "keyboard_op", "KeyboardOperation"),
         LAMBDA keyboard_op :
    Bind(Optional_from_dict(data, "screen_condition", "ScreenCondition"),
         LAMBDA screen_condition :
    Bind(Subscript(data, "id"), LAMBDA id :
    Bind(Subscript(data, "operation_type"), LAMBDA t0 :
    Bind(OperationType_of(t0), LAMBDA operation_type :
    Bind(Subscript(data, "timestamp"), LAMBDA timestamp :
    Bind(GetOr(data, "delay_after", PFloat("0.0")), LAMBDA delay_after :
    OperationBlock_checked(
        OperationBlock(id, operation_type, timestamp, mouse_op, keyboard_op,
                       screen_condition, delay_after))))))))))

\* [OperationBlock.from_dict(op_data) for op_data in items]: the first
\* exception ends the loop
RECURSIVE OperationBlocks_from(_, _)
OperationBlocks_from(items, done) ==
    IF Len(done) = Len(items) THEN Ok(PList(done))
    ELSE Bind(OperationBlock_from_dict(items[Len(done) + 1]), LAMBDA b :
         OperationBlocks_from(items, Append(done, b)))

MacroRecording_from_dict(data, clock) ==
    Bind(GetOr(data, "operations", PList(<<>>)), LAMBDA g :
    Bind(Iterate(g), LAMBDA it :
    Bind(OperationBlocks_from(it, <<>>), LAMBDA operations :
    Bind(Subscript(data, "name"), LAMBDA name :
    Bind(Subscript(data, "created_at"), LAMBDA created_at :
    Bind(GetOr(data, "metadata", EmptyDict), LAMBDA metadata :
    Ok(MacroRecording(name, created_at, operations, metadata, clock))))))))

-----------------------------------------------------------------------------
(* Paths and file names.  A name is a sequence of characters.               *)

GmaJson == <<".", "g", "m", "a", ".", "j", "s", "o", "n">>

Path(dir, name) == [dir |-> dir, name |-> name]
NoPath == Path(<<>>, <<>>)

EndsWith(s, suffix) ==
    /\ Len(s) >= Len(suffix)
    /\ SubSeq(s, Len(s) - Len(suffix) + 1, Len(s)) = suffix

StartsWith(s, prefix) ==
    /\ Len(s) >= Len(prefix)
    /\ SubSeq(s, 1, Len(prefix)) = prefix

Exists(files, p) == p \in DOMAIN files

WriteFile(files, p, content) == (p :> content) @@ files

RemoveFile(files, p) == [q \in (DOMAIN files) \ {p} |-> files[q]]

Min(a, b) == IF a < b THEN a ELSE b

-----------------------------------------------------------------------------
(* Byte contents of a file.                                                 *)
(*   raw    : bytes that no encryption of this program produced             *)
(*   fernet : MacroFileManager.encrypt_file's salt + Fernet token           *)
(*   gcm    : EncryptionService.encrypt_data's salt + nonce + ciphertext    *)

Raw(n, id) == [t |-> "raw", len |-> n, id |-> id]

\* PBKDF2HMAC(...).derive: a key is determined by the password and the salt
derive_key(password, salt) == <<password, salt>>

\* Fernet(key).encrypt
FernetToken(key, plaintext) == [key |-> key, pt |-> plaintext]
FernetFile(salt, token) == [t |-> "fernet", salt |-> salt, token |-> token]

\* AESGCM(key).encrypt(nonce, data, None): ciphertext with its tag; flips is
\* the set of bit positions of the ciphertext changed since
AesGcmSeal(key, nonce, plaintext) ==
    [key |-> key, nonce |-> nonce, pt |-> plaintext, flips |-> {}]
GcmFile(salt, nonce, ct) ==
    [t |-> "gcm", salt |-> salt, nonce |-> nonce, ct |-> ct]

\* len(bytes): a Fernet token is at least 100 base64 characters, an AES-GCM
\* ciphertext is the plaintext plus a 16-byte tag
ByteLen(c) ==
    CASE c.t = "raw" -> c.len
      [] c.t = "fernet" -> 16 + 100 + TextSize(c.token.pt)
      [] c.t = "gcm" -> 32 + 12 + TextSize(c.ct.pt) + 16

-----------------------------------------------------------------------------
(* The record of the last call *)

Call(op, path, pw, res, val) ==
    [op |-> op, path |-> path, path2 |-> NoPath, pw |-> pw, res |-> res,
     val |-> val, kdf |-> FALSE, fails_before |-> 0, all_fails_before |-> 0,
     fault |-> "none", existed |-> FALSE, before |-> PNone]

-----------------------------------------------------------------------------
(* MacroFileManager (core/file_encryption.py)                               *)

MIN_PASSWORD_LEN == 8
MAX_ATTEMPTS == 3

\* _validate_password: TRUE when it raises
validate_password_raises(password) ==
    password = "" \/ Len(password) < MIN_PASSWORD_LEN

Attempts(att, file_path) ==
    IF file_path \in DOMAIN att THEN att[file_path] ELSE 0

\* _check_password_attempts with the comparison off by one
check_password_attempts_off_by_one(att, file_path) ==
    Attempts(att, file_path) > MAX_ATTEMPTS

\* _check_password_attempts: TRUE when it raises
check_password_attempts(att, file_path) ==
    Attempts(att, file_path) >= MAX_ATTEMPTS

\* _increment_password_attempts that counts a failure twice
increment_password_attempts_twice(att, file_path) ==
    (file_path :> (Attempts(att, file_path) + 2)) @@ att

\* _increment_password_attempts
increment_password_attempts(att, file_path) ==
    (file_path :> (Attempts(att, file_path) + 1)) @@ att

\* _reset_password_attempts that forgets to delete the entry
reset_password_attempts_noop(att, file_path) == att

reset_password_attempts(att, file_path) ==
    IF file_path \in DOMAIN att
    THEN [q \in (DOMAIN att) \ {file_path} |-> att[q]]
    ELSE att

\* encrypt_file: [err, bytes]
encrypt_file(password, data, salt) ==
    IF validate_password_raises(password)
    THEN [err |-> "too_short", bytes |-> Raw(0, "none")]
    ELSE [err |-> "none",
          bytes |-> FernetFile(salt,
                       FernetToken(derive_key(password, salt), json_dumps(data)))]

\* decrypt_file: [err, val, kdf]
decrypt_file(password, encrypted_data) ==
    IF validate_password_raises(password)
    THEN [err |-> "too_short", val |-> PNone, kdf |-> FALSE]
    ELSE IF ByteLen(encrypted_data) < 32
    THEN [err |-> "corrupted", val |-> PNone, kdf |-> FALSE]
    ELSE IF encrypted_data.t # "fernet"
    THEN \* the bytes after the salt are no Fernet token: InvalidToken
         [err |-> "invalid_password", val |-> PNone, kdf |-> TRUE]
    ELSE IF encrypted_data.token.key # derive_key(password, encrypted_data.salt)
    THEN [err |-> "invalid_password", val |-> PNone, kdf |-> TRUE]
    ELSE LET j == json_loads(encrypted_data.token.pt)
         IN IF j.err # "none"
            THEN [err |-> "corrupted", val |-> PNone, kdf |-> TRUE]
            ELSE [err |-> "none", val |-> j.val, kdf |-> TRUE]

\* load_macro_file: [res, val, att, kdf]
load_macro_file(att, files, file_path, password) ==
    IF check_password_attempts(att, file_path)
    THEN [res |-> "max_attempts", val |-> PNone, att |-> att, kdf |-> FALSE]
    ELSE IF ~Exists(files, file_path)
    THEN [res |-> "load_failed", val |-> PNone, att |-> att, kdf |-> FALSE]
    ELSE LET d == decrypt_file(password, files[file_path])
         IN IF d.err = "none"
            THEN [res |-> "ok", val |-> d.val,
                  att |-> reset_password_attempts(att, file_path), kdf |-> d.kdf]
            ELSE [res |-> d.err, val |-> PNone,
                  att |-> increment_password_attempts(att, file_path),
                  kdf |-> d.kdf]

\* save_macro_file: [res, files]
save_macro_file(files, ds, file_path, password, data, salt) ==
    IF ~EndsWith(file_path.name, GmaJson)
    THEN [res |-> "ValueError", files |-> files]
    ELSE LET e == encrypt_file(password, data, salt)
         IN IF e.err # "none" THEN [res |-> e.err, files |-> files]
            ELSE IF file_path.dir \notin ds
            THEN [res |-> "FileNotFoundError", files |-> files]
            ELSE [res |-> "ok", files |-> WriteFile(files, file_path, e.bytes)]

-----------------------------------------------------------------------------
(* Inputs *)

Dir == <<"d">>
PathM == Path(Dir, <<"m">> \o GmaJson)
PathT == Path(Dir, <<"m", ".", "t", "x", "t">>)

GoodPassword == "secret123"
OtherPassword == "wrongpass1"
ShortPassword == "short"
Passwords == {GoodPassword, OtherPassword, ShortPassword}

Salts == {0, 1}

\* the dictionary of the specification's scenario: {"name": "m1", "operations": []}
DataM1 == PDict([name |-> PStr("m1"), operations |-> PList(<<>>)])
DataM2 == PDict([name |-> PStr("m2"), operations |-> PList(<<>>)])

Count(f, p) == IF p \in DOMAIN f THEN f[p] ELSE 0
Bump(f, p) == (p :> Min(Count(f, p) + 1, MaxFails)) @@ f
Forget(f, p) == [q \in (DOMAIN f) \ {p} |-> f[q]]

\* InputCaptureManager.__init__; listeners are numbered as they are made,
\* 0 is None; running and made belong to pynput, not to the manager;
\* g_session counts the events appended while _recording was True
NewInputCaptureManager ==
    [recording |-> FALSE, recorded_events |-> <<>>, mouse_listener |-> 0,
     keyboard_listener |-> 0, status_thread |-> FALSE, running |-> {},
     made |-> 0, g_session |-> 0]

\* no callback of a listener thread is between its test of _recording and
\* its append
NoCallbacks == [mouse |-> PNone, keyboard |-> PNone]

\* UndoRedoManager.__init__
NewUndoRedoManager == [history |-> <<>>, current_index |-> -1]

\* a MacroRecording without operations and no OperationReorderCommand on it
NoReorder == [operations |-> <<>>, command |-> PNone]

\* RecordingController.__init__; thread is where the monitor thread stands
\* ("none" is a _recording_thread of None), main where stop_recording
\* stands; g_sessions counts the sessions begun, g_handled the calls of
\* _handle_recording_completion since the last session began
NewRecordingController ==
    [is_recording |-> FALSE, current_recording |-> PNone,
     stop_event |-> FALSE, processed_event_timestamps |-> {},
     esc_terminated |-> FALSE, thread |-> "none", main |-> "idle",
     g_sessions |-> 0, g_handled |-> 0]

\* the threads that call load_macro_file of one MacroFileManager
LoadThreads == {"t1", "t2"}

\* a thread that is not inside load_macro_file
IdleLoad == [pc |-> "idle", path |-> NoPath, pw |-> "", seen |-> 0]

\* no thread is inside load_macro_file; failed counts the decryptions that
\* have failed and unlocked whether one has succeeded (history)
NoLoads ==
    [thread |-> [t \in LoadThreads |-> IdleLoad], failed |-> 0,
     unlocked |-> FALSE]

\* no load_macro call is running
IdleFlow ==
    [pc |-> "idle", file_path |-> NoPath, attempts |-> 0, prompts |-> 0,
     loads |-> 0, wrong |-> 0, result |-> "none"]

\* no save is between its open and its write
IdleSave ==
    [pc |-> "idle", path |-> NoPath, pw |-> "", bytes |-> Raw(0, "none")]

Init ==
    /\ fs = <<>>
    /\ dirs = {Dir}
    /\ password_attempts = <<>>
    /\ now = 1
    /\ last = Call("init", NoPath, "", "none", PNone)
    /\ g_pw_fails = <<>>
    /\ g_all_fails = <<>>
    /\ g_ever_locked = {}
    /\ g_was_reset = {}
    /\ g_origin = <<>>
    /\ g_track = PNone
    /\ g_created = <<>>
    /\ flow = IdleFlow
    /\ inflight = IdleSave
    /\ icm = NewInputCaptureManager
    /\ cb = NoCallbacks
    /\ urm = NewUndoRedoManager
    /\ ld = NoLoads
    /\ ctl = NewRecordingController
    /\ roc = NoReorder

-----------------------------------------------------------------------------
(* Actions on the MacroFileManager of the load dialog *)

FmPaths == {PathM, PathT}
FmData == {DataM1}
FmSalts == {0}
FmRawLens == {20, 50}

\* the decrypt-stage failures of load_macro_file
PwFailures == {"too_short", "corrupted", "invalid_password", "max_attempts"}

FmSave(p, pw, data, salt) ==
    LET r == save_macro_file(fs, dirs, p, pw, data, salt)
    IN /\ fs' = r.files
       /\ last' = Call("fm_save", p, pw, r.res, PNone)
       /\ g_origin' = IF r.res = "ok" THEN Forget(g_origin, p) ELSE g_origin
       /\ g_track' = PNone
       /\ UNCHANGED <<roc, ctl, ld, urm, cb, icm, flow, inflight, dirs, password_attempts, now, g_pw_fails, g_all_fails,
                      g_ever_locked, g_was_reset, g_created>>

FmLoad(p, pw) ==
    LET r == load_macro_file(password_attempts, fs, p, pw)
    IN /\ password_attempts' = r.att
       /\ last' = [Call("fm_load", p, pw, r.res, r.val) EXCEPT
                      !.kdf = r.kdf,
                      !.fails_before = Count(g_pw_fails, p),
                      !.all_fails_before = Count(g_all_fails, p)]
       /\ g_pw_fails' = IF r.res = "ok" THEN Forget(g_pw_fails, p)
                        ELSE IF r.res \in PwFailures THEN Bump(g_pw_fails, p)
                        ELSE g_pw_fails
       /\ g_all_fails' = IF r.res = "ok" THEN Forget(g_all_fails, p)
                         ELSE Bump(g_all_fails, p)
       /\ g_ever_locked' = g_ever_locked \cup
              {q \in DOMAIN r.att : r.att[q] >= MAX_ATTEMPTS}
       /\ g_was_reset' = IF r.res = "ok" /\ Attempts(password_attempts, p) > 0
                         THEN g_was_reset \cup {p} ELSE g_was_reset
       /\ g_track' = PNone
       /\ UNCHANGED <<roc, ctl, ld, urm, cb, icm, flow, inflight, fs, dirs, now, g_origin, g_created>>

\* LoadDialog.__init__: the dialog makes a MacroFileManager of its own
LoadDialogInit ==
    /\ password_attempts' = <<>>
    /\ last' = Call("load_dialog_init", NoPath, "", "ok", PNone)
    /\ g_pw_fails' = <<>>
    /\ g_all_fails' = <<>>
    /\ g_was_reset' = {}
    /\ g_track' = PNone
    /\ UNCHANGED <<roc, ctl, ld, urm, cb, icm, flow, inflight, fs, dirs, now, g_ever_locked, g_origin, g_created>>

\* the environment removes a file (os.unlink)
EnvDelete(p) ==
    /\ Exists(fs, p)
    /\ fs' = RemoveFile(fs, p)
    /\ last' = Call("env_delete", p, "", "ok", PNone)
    /\ g_origin' = Forget(g_origin, p)
    /\ g_track' = PNone
    /\ UNCHANGED <<roc, ctl, ld, urm, cb, icm, flow, inflight, dirs, password_attempts, now, g_pw_fails, g_all_fails,
                   g_ever_locked, g_was_reset, g_created>>

\* the environment writes n bytes that are no output of this program
EnvWriteRaw(p, n) ==
    /\ p.dir \in dirs
    /\ fs' = WriteFile(fs, p, Raw(n, "x"))
    /\ last' = Call("env_write", p, "", "ok", PNone)
    /\ g_origin' = Forget(g_origin, p)
    /\ g_track' = IF g_track.t = "track" /\ g_track.f = p /\ ~g_track.restored
                  THEN [g_track EXCEPT !.over = Raw(n, "x")]
                  ELSE PNone
    /\ UNCHANGED <<roc, ctl, ld, urm, cb, icm, flow, inflight, dirs, password_attempts, now, g_pw_fails, g_all_fails,
                   g_ever_locked, g_was_reset, g_created>>

NextGuard ==
    \/ \E p \in FmPaths, pw \in Passwords, data \in FmData, salt \in FmSalts :
           FmSave(p, pw, data, salt)
    \/ \E p \in FmPaths, pw \in Passwords : FmLoad(p, pw)
    \/ LoadDialogInit
    \/ \E p \in FmPaths : EnvDelete(p)
    \/ \E n \in FmRawLens : EnvWriteRaw(PathM, n)

SpecGuard == Init /\ [][NextGuard]_vars

-----------------------------------------------------------------------------
(* EncryptionService (data/encryption/encryption_service.py)                *)

SALT_SIZE == 32
NONCE_SIZE == 12

\* validate_password that accepts every password
validate_password_accepts_all(password) == FALSE

\* validate_password: TRUE when it raises PasswordValidationError
validate_password(password) == Len(password) < MIN_PASSWORD_LEN

\* encrypt_data: [err, bytes]
encrypt_data(data, password, salt, nonce) ==
    IF ~JsonSerializable(data)
    THEN [err |-> "EncryptionError", bytes |-> Raw(0, "none")]
    ELSE [err |-> "none",
          bytes |-> GcmFile(salt, nonce,
                       AesGcmSeal(derive_key(password, salt), nonce,
                                  json_dumps(data)))]

\* AESGCM(key).decrypt(nonce, ciphertext, None) on the bytes after the nonce:
\* [err, val], err "InvalidTag" unless the bytes are a ciphertext sealed under
\* this key and nonce and unchanged since
AesGcmOpen(key, nonce, encrypted_data) ==
    IF /\ encrypted_data.t = "gcm"
       /\ encrypted_data.ct.key = key
       /\ encrypted_data.ct.nonce = nonce
       /\ encrypted_data.ct.flips = {}
    THEN Ok(encrypted_data.ct.pt)
    ELSE Raise("InvalidTag")


\* min_size of decrypt_data
min_size == SALT_SIZE + NONCE_SIZE

\* the handler of InvalidTag, reporting it as a generic failure
on_invalid_tag_generic == "EncryptionError"

\* the handler of InvalidTag in decrypt_data
on_invalid_tag == "InvalidPasswordError"

\* decrypt_data: [err, val, kdf]
decrypt_data(encrypted_data, password) ==
    IF ByteLen(encrypted_data) < min_size
    THEN [err |-> "EncryptionError", val |-> PNone, kdf |-> FALSE]
    ELSE LET salt == IF encrypted_data.t = "gcm" THEN encrypted_data.salt ELSE 0
             nonce == IF encrypted_data.t = "gcm" THEN encrypted_data.nonce ELSE 0
             key == derive_key(password, salt)
             opened == AesGcmOpen(key, nonce, encrypted_data)
         IN IF opened.err # "none"
            THEN [err |-> on_invalid_tag, val |-> PNone, kdf |-> TRUE]
            ELSE LET j == json_loads(opened.val)
                 IN IF j.err # "none"
                    THEN [err |-> "EncryptionError", val |-> PNone, kdf |-> TRUE]
                    ELSE [err |-> "none", val |-> j.val, kdf |-> TRUE]

-----------------------------------------------------------------------------
(* FileSystemMacroRepository (data/repositories/file_system_macro_repository.py) *)

\* Path.mkdir(parents=True, exist_ok=True): the directory and its ancestors
Ancestors(dir) == {SubSeq(dir, 1, n) : n \in 1..Len(dir)}

EnvelopeMetadata ==
    PDict([format_version |-> PStr("1.0"), encryption |-> PStr("AES-256-GCM")])

\* save: [res, files, ds]
repo_save(files, ds, recording, file_path, password, salt, nonce) ==
    IF validate_password(password)
    THEN \* PasswordValidationError is an EncryptionError: wrapped
         [res |-> "RepositoryError", files |-> files, ds |-> ds]
    ELSE LET recording_data ==
                 SetKey(MacroRecording_to_dict(recording), "_metadata",
                        EnvelopeMetadata)
             e == encrypt_data(recording_data, password, salt, nonce)
         IN IF e.err # "none"
            THEN [res |-> "RepositoryError", files |-> files, ds |-> ds]
            ELSE [res |-> "ok",
                  files |-> WriteFile(files, file_path, e.bytes),
                  ds |-> ds \cup Ancestors(file_path.dir)]

\* Path.exists() of a path that names a directory
IsDir(ds, p) == (p.dir \o <<p.name>>) \in ds

\* exists: file_path.exists() and file_path.is_file()
repo_exists(files, ds, file_path) == Exists(files, file_path)

\* delete that unlinks without looking: an absent path is an error
repo_delete_strict(files, ds, file_path, fault) ==
    IF ~Exists(files, file_path) \/ fault = "unlink"
    THEN [res |-> "RepositoryError", val |-> PNone, files |-> files]
    ELSE [res |-> "ok", val |-> PBool(TRUE),
          files |-> RemoveFile(files, file_path)]

\* delete: [res, val, files]
repo_delete(files, ds, file_path, fault) ==
    IF ~Exists(files, file_path) /\ ~IsDir(ds, file_path)
    THEN [res |-> "ok", val |-> PBool(TRUE), files |-> files]
    ELSE IF IsDir(ds, file_path) \/ fault = "unlink"
    THEN \* unlink raises OSError
         [res |-> "RepositoryError", val |-> PNone, files |-> files]
    ELSE [res |-> "ok", val |-> PBool(TRUE),
          files |-> RemoveFile(files, file_path)]

\* the except clauses of load, for an exception raised after decryption
LoadErrorKind(err) ==
    IF err \in {"JSONDecodeError", "KeyError", "ValueError"}
    THEN "CorruptedFileError"
    ELSE "RepositoryError"

\* the format check, the removal of '_metadata' and from_dict: [err, val]
recording_of(recording_data, clock) ==
    Bind(Contains(recording_data, "_metadata"), LAMBDA has :
    Bind(IF has.v
         THEN Bind(Subscript(recording_data, "_metadata"), LAMBDA metadata :
                   GetOr(metadata, "format_version", PNone))
         ELSE Ok(PNone), LAMBDA format_version :
    MacroRecording_from_dict(
        IF has.v THEN DelKey(recording_data, "_metadata") ELSE recording_data,
        clock)))

\* the end of load, r the outcome of recording_of: [res, val, kdf]
load_parsed(r, kdf) ==
    IF r.err # "none"
    THEN [res |-> LoadErrorKind(r.err), val |-> PNone, kdf |-> kdf]
    ELSE [res |-> "ok", val |-> r.val, kdf |-> kdf]

\* load once decrypt_data has returned d: [res, val, kdf]
load_decrypted(d, clock) ==
    IF d.err = "InvalidPasswordError"
    THEN [res |-> "InvalidPasswordError", val |-> PNone, kdf |-> d.kdf]
    ELSE IF d.err # "none"
    THEN [res |-> "CorruptedFileError", val |-> PNone, kdf |-> d.kdf]
    ELSE load_parsed(recording_of(d.val, clock), d.kdf)

\* load: [res, val, kdf]
repo_load(files, file_path, password, clock) ==
    IF ~Exists(files, file_path)
    THEN [res |-> "FileNotFoundError", val |-> PNone, kdf |-> FALSE]
    ELSE load_decrypted(decrypt_data(files[file_path], password), clock)

-----------------------------------------------------------------------------
(* Inputs of the repository *)

PathS == Path(<<"d", "sub">>, <<"m">> \o GmaJson)
\* a target without the .gma.json suffix
PathN == Path(<<"d", "sub">>, <<"m", ".", "t", "x", "t">>)

ClickOp ==
    OperationBlock(PStr("mouse_click_1000"), Enum("OperationType", "mouse_click"),
                   PNum(1),
                   MouseOperation(Enum("MouseButton", "left"),
                                  Position(PNum(100), PNum(200)), PStr("click")),
                   PNone, PNone, PFloat("0.0"))
KeyOp ==
    OperationBlock(PStr("key_press_2000"), Enum("OperationType", "key_press"),
                   PNum(2), PNone,
                   KeyboardOperation(PStr("a"), PStr("press"),
                                     PList(<<PStr("ctrl")>>)),
                   PNone, PFloat("0.0"))
\* a screen condition on the region (10, 10, 50, 50)
RegionOp ==
    OperationBlock(PStr("screen_1"), Enum("OperationType", "screen_condition"),
                   PNum(3), PNone, PNone,
                   ScreenCondition(PBytes(<<1, 2>>),
                       PTuple(<<PNum(10), PNum(10), PNum(50), PNum(50)>>),
                       PFloat("0.8"), PFloat("5.0")),
                   PFloat("0.0"))

RecKeys ==
    MacroRecording(PStr("m1"), PNum(1), PList(<<ClickOp, KeyOp>>),
                   PDict([test |-> PBool(TRUE)]), 1)
RecRegion ==
    MacroRecording(PStr("m2"), PNum(2), PList(<<RegionOp>>), EmptyDict, 1)

Recordings == {RecKeys, RecRegion}

\* plaintexts another writer sealed in the same envelope format
LegacyDict == PDict([name |-> PStr("old"), created_at |-> PNum(1)])
ForeignTexts ==
    { NotJson,
      json_dumps(PList(<<>>)),
      json_dumps(PDict([created_at |-> PNum(1)])),
      json_dumps(PDict([name |-> PStr("x"), created_at |-> PNum(1),
                        operations |-> PNum(5)])),
      json_dumps(LegacyDict) }

RepoPasswords == {GoodPassword, OtherPassword, ShortPassword}
Nonces == {0, 1}
RepoRawLens == {40, 50, 70}
EnvelopeParts == {"salt", "nonce", "ct"}

Origin(kind, pw, rec, text, env) ==
    [kind |-> kind, pw |-> pw, rec |-> rec, text |-> text, env |-> env]

-----------------------------------------------------------------------------
(* Actions on the repository and the encryption service *)

RepoSave(p, recording, pw, salt, nonce) ==
    \E r \in {repo_save(fs, dirs, recording, p, pw, salt, nonce)} :
       /\ fs' = r.files
       /\ dirs' = r.ds
       /\ last' = Call("repo_save", p, pw, r.res, PNone)
       /\ g_origin' = IF r.res = "ok"
                      THEN (p :> Origin("repo_save", pw, recording,
                                        r.files[p].ct.pt, r.files[p])) @@ g_origin
                      ELSE g_origin
       /\ g_track' = PNone
       /\ UNCHANGED <<roc, ctl, ld, urm, cb, icm, flow, inflight, password_attempts, now, g_pw_fails, g_all_fails,
                      g_ever_locked, g_was_reset, g_created>>

RepoLoad(p, pw) ==
    \E r \in {repo_load(fs, p, pw, now)} :
       /\ last' = [Call("repo_load", p, pw, r.res, r.val) EXCEPT !.kdf = r.kdf]
       /\ g_track' = PNone
       /\ UNCHANGED <<roc, ctl, ld, urm, cb, icm, flow, inflight, fs, dirs, password_attempts, now, g_pw_fails, g_all_fails,
                      g_ever_locked, g_was_reset, g_origin, g_created>>

\* EncryptionService.decrypt_data on the bytes of a file
DecryptData(p, pw) ==
    /\ Exists(fs, p)
    /\ \E r \in {decrypt_data(fs[p], pw)} :
          last' = [Call("decrypt_data", p, pw, r.err, r.val) EXCEPT !.kdf = r.kdf]
    /\ g_track' = PNone
    /\ UNCHANGED <<roc, ctl, ld, urm, cb, icm, flow, inflight, fs, dirs, password_attempts, now, g_pw_fails, g_all_fails,
                   g_ever_locked, g_was_reset, g_origin, g_created>>

\* another writer seals a plaintext in the envelope format and writes it
EnvSeal(p, text, pw, salt, nonce) ==
    /\ p.dir \in dirs
    /\ LET env == GcmFile(salt, nonce,
                          AesGcmSeal(derive_key(pw, salt), nonce, text))
       IN /\ fs' = WriteFile(fs, p, env)
          /\ g_origin' = (p :> Origin("foreign", pw, PNone, text, env)) @@ g_origin
    /\ last' = Call("env_seal", p, pw, "ok", PNone)
    /\ g_track' = PNone
    /\ UNCHANGED <<roc, ctl, ld, urm, cb, icm, flow, inflight, dirs, password_attempts, now, g_pw_fails, g_all_fails,
                   g_ever_locked, g_was_reset, g_created>>

\* one bit of the salt, the nonce or the ciphertext of an envelope flips
EnvFlip(p, part) ==
    /\ Exists(fs, p)
    /\ fs[p].t = "gcm"
    /\ fs' = CASE part = "salt" -> [fs EXCEPT ![p].salt = 1 - @]
               [] part = "nonce" -> [fs EXCEPT ![p].nonce = 1 - @]
               [] OTHER -> [fs EXCEPT ![p].ct.flips =
                                IF 0 \in @ THEN @ \ {0} ELSE @ \cup {0}]
    /\ last' = Call("env_flip", p, "", "ok", PNone)
    /\ g_track' = PNone
    /\ UNCHANGED <<roc, ctl, ld, urm, cb, icm, flow, inflight, dirs, password_attempts, now, g_pw_fails, g_all_fails,
                   g_ever_locked, g_was_reset, g_origin, g_created>>

NextRepo ==
    \/ \E rec \in Recordings, pw \in RepoPasswords, salt \in Salts,
          nonce \in Nonces : RepoSave(PathS, rec, pw, salt, nonce)
    \/ RepoSave(PathN, RecKeys, GoodPassword, 0, 0)
    \/ \E pw \in RepoPasswords : RepoLoad(PathS, pw)
    \/ \E pw \in RepoPasswords : DecryptData(PathS, pw)
    \/ \E text \in ForeignTexts : EnvSeal(PathS, text, GoodPassword, 0, 0)
    \/ \E part \in EnvelopeParts : EnvFlip(PathS, part)
    \/ \E n \in RepoRawLens : EnvWriteRaw(PathS, n)
    \/ EnvDelete(PathS)

SpecRepo == Init /\ [][NextRepo]_vars

-----------------------------------------------------------------------------
(* FileDialogManager.load_macro (ui/dialogs/file_dialog_manager.py) with    *)
(* its PasswordDialog (ui/dialogs/password_dialog.py). The call blocks in   *)
(* the modal password dialog; flow.pc is where it waits.                    *)

\* PasswordDialog(self.parent, max_attempts=3)
max_attempts == 3

\* the wrong passwords one call of load_macro is followed through
MaxWrong == 4

\* PasswordDialog.is_max_attempts_reached
is_max_attempts_reached(attempts) == attempts >= max_attempts

\* PasswordDialog.increment_attempts
increment_attempts(attempts) == attempts + 1

\* PasswordDialog.show up to wait_window: the counter is set to 0 and the
\* dialog is on the screen
show(fl) == [fl EXCEPT !.attempts = 0, !.prompts = @ + 1, !.pc = "prompt"]

\* load_macro returns
Return(fl, result) == [fl EXCEPT !.pc = "done", !.result = result]

\* the head of the while loop: another prompt unless the limit is reached
while_not_max_attempts(fl) ==
    IF is_max_attempts_reached(fl.attempts) THEN Return(fl, "none") ELSE show(fl)

\* load_macro from its start to the first password prompt; choice is what
\* the file chooser returned, NoPath when the user cancelled it
LoadMacroOpen(choice) ==
    /\ flow.pc \in {"idle", "done"}
    /\ flow' = IF choice = NoPath
               THEN Return([IdleFlow EXCEPT !.file_path = choice], "none")
               ELSE while_not_max_attempts([IdleFlow EXCEPT !.file_path = choice])
    /\ last' = Call("load_macro", choice, "", "ok", PNone)
    /\ g_track' = PNone
    /\ UNCHANGED <<roc, ctl, ld, urm, cb, icm, inflight, fs, dirs, password_attempts, now, g_pw_fails,
                   g_all_fails, g_ever_locked, g_was_reset, g_origin, g_created>>

\* what follows repository.load in the loop, for its outcome res
after_load(fl, res) ==
    IF res = "ok" THEN Return(fl, "recording")
    ELSE IF res = "InvalidPasswordError"
    THEN IF is_max_attempts_reached(increment_attempts(fl.attempts))
         THEN Return([fl EXCEPT !.attempts = increment_attempts(@),
                                !.wrong = @ + 1], "none")
         ELSE \* continue
              while_not_max_attempts(
                  [fl EXCEPT !.attempts = increment_attempts(@),
                             !.wrong = @ + 1])
    ELSE \* the except clauses around the loop
         Return(fl, "none")

\* OK in the password dialog with a password that is not empty: show returns
\* it and the loop body runs to the next prompt or to the return
PromptOk(pw) ==
    /\ flow.pc = "prompt"
    /\ flow.wrong < MaxWrong
    /\ pw # ""
    /\ \E r \in {repo_load(fs, flow.file_path, pw, now)} :
          /\ flow' = after_load([flow EXCEPT !.loads = @ + 1], r.res)
          /\ last' = [Call("load_macro_password", flow.file_path, pw, r.res,
                           r.val) EXCEPT !.kdf = r.kdf]
    /\ g_track' = PNone
    /\ UNCHANGED <<roc, ctl, ld, urm, cb, icm, inflight, fs, dirs, password_attempts, now, g_pw_fails,
                   g_all_fails, g_ever_locked, g_was_reset, g_origin, g_created>>

\* Cancel in the password dialog: show returns None and load_macro returns
PromptCancel ==
    /\ flow.pc = "prompt"
    /\ flow' = Return(flow, "none")
    /\ last' = Call("load_macro_cancel", flow.file_path, "", "ok", PNone)
    /\ g_track' = PNone
    /\ UNCHANGED <<roc, ctl, ld, urm, cb, icm, inflight, fs, dirs, password_attempts, now, g_pw_fails,
                   g_all_fails, g_ever_locked, g_was_reset, g_origin, g_created>>

NextDialog ==
    \/ \E rec \in Recordings, salt \in Salts, nonce \in Nonces :
           RepoSave(PathS, rec, GoodPassword, salt, nonce)
    \/ \E choice \in {PathS, NoPath} : LoadMacroOpen(choice)
    \/ \E pw \in RepoPasswords : PromptOk(pw)
    \/ PromptCancel
    \/ \E n \in RepoRawLens : EnvWriteRaw(PathS, n)
    \/ EnvDelete(PathS)

SpecDialog == Init /\ [][NextDialog]_vars

\* C13: in load_macro, after three wrong passwords for the selected file the
\* call has ended without a recording and without a further prompt, and one
\* call makes at most three decrypt attempts.
C13_ThreeWrongPasswordsEndTheFlow ==
    /\ flow.wrong >= max_attempts
       => (flow.pc = "done" /\ flow.result = "none"
           /\ flow.prompts <= max_attempts)
    /\ flow.loads <= max_attempts

-----------------------------------------------------------------------------
(* A save and a load in two threads, each with a repository of its own.     *)
(* save has no lock and writes in place: open(file_path, 'wb') truncates    *)
(* the file, f.write fills it. The load of the other thread can run before, *)
(* between and after the two.                                               *)

\* the bytes of a file that open(..., 'wb') has just created or truncated
EmptyFile == Raw(0, "x")

\* save from its start to open(file_path, 'wb')
SaveOpen(p, recording, pw, salt, nonce) ==
    /\ inflight.pc = "idle"
    /\ \E r \in {repo_save(fs, dirs, recording, p, pw, salt, nonce)} :
          /\ fs' = IF r.res = "ok" THEN WriteFile(fs, p, EmptyFile) ELSE fs
          /\ dirs' = r.ds
          /\ inflight' = IF r.res = "ok"
                         THEN [pc |-> "writing", path |-> p, pw |-> pw,
                               bytes |-> r.files[p]]
                         ELSE inflight
          /\ last' = Call("save_open", p, pw, r.res, PNone)
          /\ g_origin' = IF r.res = "ok" THEN Forget(g_origin, p) ELSE g_origin
    /\ g_track' = PNone
    /\ UNCHANGED <<roc, ctl, ld, urm, cb, icm, flow, password_attempts, now, g_pw_fails, g_all_fails,
                   g_ever_locked, g_was_reset, g_created>>

\* f.write(encrypted_data) and the close of the file: save returns True
SaveWrite ==
    /\ inflight.pc = "writing"
    /\ fs' = WriteFile(fs, inflight.path, inflight.bytes)
    /\ inflight' = IdleSave
    /\ last' = Call("save_write", inflight.path, "", "ok", PBool(TRUE))
    /\ g_track' = PNone
    /\ UNCHANGED <<roc, ctl, ld, urm, cb, icm, flow, dirs, password_attempts, now, g_pw_fails, g_all_fails,
                   g_ever_locked, g_was_reset, g_origin, g_created>>

\* load in the other thread
ConcLoad(p, pw) ==
    \E r \in {repo_load(fs, p, pw, now)} :
       /\ last' = [Call("conc_load", p, pw, r.res, r.val) EXCEPT !.kdf = r.kdf]
       /\ g_track' = PNone
       /\ UNCHANGED <<roc, ctl, ld, urm, cb, icm, flow, inflight, fs, dirs, password_attempts, now,
                      g_pw_fails, g_all_fails, g_ever_locked, g_was_reset,
                      g_origin, g_created>>

NextConc ==
    \/ \E rec \in Recordings, pw \in RepoPasswords, salt \in Salts,
          nonce \in Nonces : SaveOpen(PathS, rec, pw, salt, nonce)
    \/ SaveWrite
    \/ \E pw \in RepoPasswords : ConcLoad(PathS, pw)

SpecConc == Init /\ [][NextConc]_vars

\* C19: a load that runs while a save of the same path with the same
\* password is under way returns a recording: it raises no error and does
\* not see a truncated file. (A load leaves inflight as it found it.)
C19_ConcurrentLoadSucceeds ==
    (/\ last.op = "conc_load"
     /\ inflight.pc = "writing"
     /\ inflight.path = last.path
     /\ inflight.pw = last.pw)
    => /\ last.res = "ok"
       /\ ByteLen(fs[last.path]) > 0

-----------------------------------------------------------------------------
(* Properties of the repository and the encryption service (SpecRepo) *)

\* the file at p is byte for byte what its last writer wrote
Untouched(p) == p \in DOMAIN g_origin /\ Exists(fs, p) /\ fs[p] = g_origin[p].env

\* C2: after any sequence of saves whose last successful one is
\* save(r, path, p), load(path, p) succeeds and returns a record equal to r.
C2_SaveLoadRoundTrip ==
    (/\ last.op = "repo_load"
     /\ Untouched(last.path)
     /\ g_origin[last.path].kind = "repo_save"
     /\ last.pw = g_origin[last.path].pw)
    => /\ last.res = "ok"
       /\ last.val = g_origin[last.path].rec

\* C3: decrypt_data returns a payload only under the sealing password on an
\* unmodified envelope, and then the payload that was sealed; with another
\* password, or with a flipped nonce or ciphertext bit, it fails with
\* InvalidPasswordError.
C3_DecryptRejectsWrongPasswordAndTampering ==
    (last.op = "decrypt_data" /\ last.path \in DOMAIN g_origin)
    => LET o == g_origin[last.path]
           cur == fs[last.path]
       IN /\ last.res = "none"
             => /\ last.pw = o.pw
                /\ cur = o.env
                /\ json_dumps(last.val) = o.text
          /\ (\/ last.pw # o.pw
              \/ cur.nonce # o.env.nonce
              \/ cur.ct # o.env.ct)
             => last.res = "InvalidPasswordError"

\* a decrypt with the sealing password of an envelope whose ciphertext has a
\* flipped bit was refused as an invalid password
C3_Witness ==
    /\ last.op = "decrypt_data"
    /\ last.path \in DOMAIN g_origin
    /\ last.pw = g_origin[last.path].pw
    /\ fs[last.path].ct # g_origin[last.path].env.ct
    /\ fs[last.path].nonce = g_origin[last.path].env.nonce
    /\ last.res = "InvalidPasswordError"

\* C8 as amended: save with a password shorter than 8 characters fails with
\* RepositoryError and creates or changes no file and no directory.
C8_ShortPasswordSaveWrapped ==
    [][(last'.op = "repo_save" /\ Len(last'.pw) < MIN_PASSWORD_LEN)
       => /\ last'.res = "RepositoryError"
          /\ fs' = fs
          /\ dirs' = dirs]_vars

\* C8 as stated: the failure reaches the caller as the password policy error
C8_ShortPasswordSavePropagates ==
    (last.op = "repo_save" /\ Len(last.pw) < MIN_PASSWORD_LEN)
    => last.res = "PasswordValidationError"

\* a short-password save was refused while the target did not exist
C8_Witness ==
    /\ last.op = "repo_save"
    /\ Len(last.pw) < MIN_PASSWORD_LEN
    /\ last.res = "RepositoryError"
    /\ ~Exists(fs, last.path)
    /\ last.path.dir \notin dirs

\* C9: decrypt of bytes shorter than 44 bytes plus the 16-byte tag fails as
\* corrupted data (EncryptionError) before the key derivation runs.
C9_ShortEnvelopeFailsBeforeKdf ==
    (/\ last.op = "decrypt_data"
     /\ ByteLen(fs[last.path]) < SALT_SIZE + NONCE_SIZE + 16)
    => /\ last.res = "EncryptionError"
       /\ ~last.kdf

\* the payload under an envelope parses as a recording dictionary
ParsesAsRecording(text) ==
    /\ json_loads(text).err = "none"
    /\ LET d == json_loads(text).val
       IN MacroRecording_from_dict(
              IF d.t = "dict" THEN DelKey(d, "_metadata") ELSE d, 1).err = "none"

\* C10: load reports a missing path as FileNotFoundError, a tag failure as
\* InvalidPasswordError, and bytes that decrypt but do not parse as a
\* recording as CorruptedFileError and as nothing else.
C10_LoadErrorKinds ==
    last.op = "repo_load"
    => /\ ~Exists(fs, last.path) <=> last.res = "FileNotFoundError"
       /\ (Untouched(last.path) /\ last.pw # g_origin[last.path].pw)
          => last.res = "InvalidPasswordError"
       /\ (/\ Untouched(last.path)
           /\ last.pw = g_origin[last.path].pw
           /\ ~ParsesAsRecording(g_origin[last.path].text))
          => last.res = "CorruptedFileError"

\* C14: save accepts only targets that end in .gma.json: a save to another
\* path is rejected and writes no file (nothing but save writes PathN here).
C14_SaveRequiresGmaJsonSuffix ==
    (last.op = "repo_save" /\ ~EndsWith(last.path.name, GmaJson))
    => /\ last.res # "ok"
       /\ ~Exists(fs, last.path)

-----------------------------------------------------------------------------
(* Properties of the attempt counter of MacroFileManager (SpecGuard) *)

\* C1 as amended: after three loads of a path by one manager that failed on
\* the password or the content (wrong or too short password, undecryptable or
\* corrupted data), with no successful load between them, the next load is
\* refused as attempts exceeded whatever the password, and returns no data.
C1_LockoutAfterThreePasswordFailures ==
    (last.op = "fm_load" /\ last.fails_before >= MAX_ATTEMPTS)
    => /\ last.res = "max_attempts"
       /\ last.val = PNone

\* C1 as stated: any three failed loads in a row lock the path
C1_LockoutAfterThreeFailedLoads ==
    (last.op = "fm_load" /\ last.all_fails_before >= MAX_ATTEMPTS)
    => /\ last.res = "max_attempts"
       /\ last.val = PNone

\* the fourth load carried the password the file was sealed with
C1_Witness ==
    /\ last.op = "fm_load"
    /\ last.fails_before >= MAX_ATTEMPTS
    /\ Exists(fs, last.path)
    /\ fs[last.path] = encrypt_file(last.pw, DataM1, 0).bytes
    /\ last.res = "max_attempts"

\* C6: a successful load removes the path from the counter, so a load is
\* refused as attempts exceeded only after three failures since the last
\* successful load of that path.
C6_SuccessResetsCounter ==
    last.op = "fm_load"
    => /\ last.res = "max_attempts" => last.fails_before >= MAX_ATTEMPTS
       /\ last.res = "ok" => last.path \notin DOMAIN password_attempts

\* a path whose counter a successful load had cleared was locked again
C6_Witness ==
    /\ last.op = "fm_load"
    /\ last.path \in g_was_reset
    /\ last.res = "max_attempts"
    /\ last.fails_before >= MAX_ATTEMPTS

\* C7: once a path has reached three failed attempts, nothing later in the
\* process lowers its counter or lets a load of it succeed.
C7_LockoutIsTerminal ==
    /\ \A p \in g_ever_locked : Attempts(password_attempts, p) >= MAX_ATTEMPTS
    /\ (last.op = "fm_load" /\ last.path \in g_ever_locked) => last.res # "ok"

\* C12: the failed-attempt counter of every path stays within 0..MAX_ATTEMPTS
\* (a path without an entry counts as 0).
C12_CounterWithinBounds ==
    \A p \in FmPaths \cup DOMAIN password_attempts :
        Attempts(password_attempts, p) \in 0..MAX_ATTEMPTS

\* a path is at the limit and a further load on it was refused
C12_Witness ==
    /\ last.op = "fm_load"
    /\ last.res = "max_attempts"
    /\ Attempts(password_attempts, last.path) = MAX_ATTEMPTS

\* C20: only a failed authentication counts: a load that fails on the length
\* of the password, on a missing file or on a corrupted file leaves the
\* counter of the path as it was.
C20_OnlyAuthFailureCounts ==
    [][(/\ last'.op = "fm_load"
        /\ last'.res \in {"too_short", "load_failed", "corrupted"})
       => Attempts(password_attempts', last'.path)
          = Attempts(password_attempts, last'.path)]_vars

-----------------------------------------------------------------------------
(* BackupManager (data/backup/backup_manager.py) *)

\* BackupManager(max_backups=3)
max_backups == 3

DigitChars == <<"0", "1", "2", "3", "4", "5", "6", "7", "8", "9">>

\* str(n) of a natural number
RECURSIVE IntToStr(_)
IntToStr(n) ==
    IF n < 10 THEN <<DigitChars[n + 1]>>
    ELSE IntToStr(n \div 10) \o <<DigitChars[(n % 10) + 1]>>

\* the value of a string of digits
RECURSIVE DigitsValue(_)
DigitsValue(s) ==
    IF s = <<>> THEN 0
    ELSE 10 * DigitsValue(SubSeq(s, 1, Len(s) - 1))
         + (CHOOSE d \in 0..9 : DigitChars[d + 1] = s[Len(s)])

\* float(s) on the strings a file name can hold: a string of digits is its
\* value, a string with a letter in it is a ValueError
ParseFloat(s) ==
    IF s # <<>> /\ \A i \in DOMAIN s : \E d \in 1..10 : DigitChars[d] = s[i]
    THEN Ok(DigitsValue(s))
    ELSE Raise("ValueError")

\* PurePath.stem: the name without its last suffix
Stem(name) ==
    LET dots == {i \in DOMAIN name : name[i] = "."}
        i == IF dots = {} THEN 0 ELSE CHOOSE j \in dots : \A k \in dots : k <= j
    IN IF 1 < i /\ i < Len(name) THEN SubSeq(name, 1, i - 1) ELSE name

\* str.split(sep) for a separator of one character
RECURSIVE Split(_, _)
Split(s, sep) ==
    LET at == {i \in DOMAIN s : s[i] = sep}
    IN IF at = {} THEN <<s>>
       ELSE LET i == CHOOSE j \in at : \A k \in at : j <= k
            IN <<SubSeq(s, 1, i - 1)>> \o Split(SubSeq(s, i + 1, Len(s)), sep)

BackupsDirName == <<".", "b", "a", "c", "k", "u", "p", "s">>
BackupInfix == <<"_", "b", "a", "c", "k", "u", "p", "_">>

get_backup_directory(file_path) == file_path.dir \o <<BackupsDirName>>

\* the base name both _generate_backup_path and list_backups compute
BaseName(file_path) ==
    IF EndsWith(file_path.name, GmaJson)
    THEN SubSeq(file_path.name, 1, Len(file_path.name) - 9)
    ELSE Stem(file_path.name)

generate_backup_path(file_path, clock) ==
    Path(get_backup_directory(file_path),
         BaseName(file_path) \o BackupInfix \o IntToStr(clock) \o GmaJson)

\* _extract_timestamp_from_backup: [err, val]
extract_timestamp_from_backup(backup_path) ==
    LET name_parts == Split(Stem(backup_path.name), "_")
        n == Len(name_parts)
    IN IF n >= 3 /\ name_parts[n - 1] = <<"b", "a", "c", "k", "u", "p">>
       THEN ParseFloat(name_parts[n])
       ELSE Raise("ValueError")

\* backup_dir.glob(f'{base_name}_backup_*.gma.json')
Glob(files, dir, prefix, suffix) ==
    {q \in DOMAIN files :
        /\ q.dir = dir
        /\ Len(q.name) >= Len(prefix) + Len(suffix)
        /\ StartsWith(q.name, prefix)
        /\ EndsWith(q.name, suffix)}

BackupInfo(path, timestamp, size) ==
    [path |-> path, timestamp |-> timestamp, size |-> size]

\* list.sort(key=timestamp, reverse=True) of a set of BackupInfo
RECURSIVE SortNewestFirst(_)
SortNewestFirst(infos) ==
    IF infos = {} THEN <<>>
    ELSE LET x == CHOOSE y \in infos : \A z \in infos : z.timestamp <= y.timestamp
         IN <<x>> \o SortNewestFirst(infos \ {x})

\* what the file system can refuse during a call of the BackupManager:
\*   "glob"   : reading the backup directory raises OSError
\*   "unlink" : removing a file raises OSError
Faults == {"none", "glob", "unlink"}

\* list_backups: the BackupInfo of the files whose timestamp parses; an
\* exception other than the ValueError of a name is logged and [] returned
list_backups(files, ds, file_path, fault) ==
    LET backup_dir == get_backup_directory(file_path)
        backup_files == Glob(files, backup_dir,
                             BaseName(file_path) \o BackupInfix, GmaJson)
        backup_infos ==
            {BackupInfo(b, extract_timestamp_from_backup(b).val,
                        ByteLen(files[b])) :
                b \in {c \in backup_files :
                          extract_timestamp_from_backup(c).err = "none"}}
    IN IF backup_dir \notin ds THEN <<>>
       ELSE IF fault = "glob" THEN <<>>
       ELSE SortNewestFirst(backup_infos)

\* delete_backup: [err, files]
delete_backup(files, backup_path, fault) ==
    IF ~Exists(files, backup_path) THEN [err |-> "none", files |-> files]
    ELSE IF fault = "unlink" THEN [err |-> "BackupError", files |-> files]
    ELSE [err |-> "none", files |-> RemoveFile(files, backup_path)]

\* for backup in infos: try delete_backup, except BackupError: continue.
\* [n, files]: the deletions that did not raise, and the files afterwards
RECURSIVE DeleteAll(_, _, _)
DeleteAll(files, infos, fault) ==
    IF infos = <<>> THEN [n |-> 0, files |-> files]
    ELSE LET d == delete_backup(files, Head(infos).path, fault)
             rest == DeleteAll(d.files, Tail(infos), fault)
         IN [n |-> rest.n + (IF d.err = "none" THEN 1 ELSE 0),
             files |-> rest.files]

\* _cleanup_old_backups without a try: a failed listing is raised
cleanup_old_backups_propagates(files, ds, file_path, fault) ==
    IF fault = "glob" /\ get_backup_directory(file_path) \in ds
    THEN [err |-> "OSError", files |-> files]
    ELSE [err |-> "none", files |-> files]

\* _cleanup_old_backups: [err, files]; every exception is logged, none raised
cleanup_old_backups(files, ds, file_path, fault) ==
    LET backups == list_backups(files, ds, file_path, fault)
    IN IF Len(backups) > max_backups
       THEN [err |-> "none",
             files |-> DeleteAll(files,
                                 SubSeq(backups, max_backups + 1, Len(backups)),
                                 fault).files]
       ELSE [err |-> "none", files |-> files]

\* create_backup that makes the backup directory before it looks for the source
create_backup_mkdir_first(files, ds, file_path, clock, fault) ==
    LET backup_path == generate_backup_path(file_path, clock)
        ds2 == ds \cup Ancestors(backup_path.dir)
    IN IF ~Exists(files, file_path)
       THEN [res |-> "BackupError", val |-> PNone, files |-> files, ds |-> ds2]
       ELSE [res |-> "ok", val |-> backup_path,
             files |-> WriteFile(files, backup_path, files[file_path]),
             ds |-> ds2]

\* create_backup: [res, val, files, ds]
create_backup(files, ds, file_path, clock, fault) ==
    LET backup_path == generate_backup_path(file_path, clock)
        ds2 == ds \cup Ancestors(backup_path.dir)
        copied == WriteFile(files, backup_path, files[file_path])
        cleaned == cleanup_old_backups(copied, ds2, file_path, fault)
    IN IF ~Exists(files, file_path)
       THEN [res |-> "BackupError", val |-> PNone, files |-> files, ds |-> ds]
       ELSE IF backup_path = file_path
       THEN \* shutil.SameFileError, after the mkdir
            [res |-> "BackupError", val |-> PNone, files |-> files, ds |-> ds2]
       ELSE IF fault = "copy"
       THEN \* shutil.copy2 raises OSError, after the mkdir
            [res |-> "BackupError", val |-> PNone, files |-> files, ds |-> ds2]
       ELSE IF cleaned.err # "none"
       THEN \* except Exception: raise BackupError, after the copy
            [res |-> "BackupError", val |-> PNone, files |-> cleaned.files,
             ds |-> ds2]
       ELSE [res |-> "ok", val |-> backup_path, files |-> cleaned.files,
             ds |-> ds2]

\* a restore that copies the target over the backup
restore_backup_reversed(files, ds, backup_path, target_path) ==
    IF ~Exists(files, backup_path) \/ ~Exists(files, target_path)
    THEN [res |-> "BackupError", files |-> files, ds |-> ds]
    ELSE [res |-> "ok",
          files |-> WriteFile(files, backup_path, files[target_path]),
          ds |-> ds]

\* restore_backup: [res, files, ds]
restore_backup(files, ds, backup_path, target_path) ==
    LET ds2 == ds \cup Ancestors(target_path.dir)
    IN IF ~Exists(files, backup_path)
       THEN [res |-> "BackupError", files |-> files, ds |-> ds]
       ELSE IF backup_path = target_path
       THEN [res |-> "BackupError", files |-> files, ds |-> ds2]
       ELSE [res |-> "ok",
             files |-> WriteFile(files, target_path, files[backup_path]),
             ds |-> ds2]

\* cleanup_all_backups: [val, files]
cleanup_all_backups(files, ds, file_path, fault) ==
    LET backups == list_backups(files, ds, file_path, fault)
        deleted == DeleteAll(files, backups, fault)
    IN [val |-> deleted.n, files |-> deleted.files]

-----------------------------------------------------------------------------
(* Actions on the BackupManager *)

BkFiles == {PathM}
BkRawLens == {20, 50}
\* the backup paths create_backup can make within the modelled clock
BkBackupPaths == {generate_backup_path(f, t) : f \in BkFiles, t \in 1..MaxTime}

Track(f, bpath, content) ==
    [t |-> "track", f |-> f, bpath |-> bpath, content |-> content,
     over |-> PNone, restored |-> FALSE]

\* the backups successive create_backup calls made of f, oldest first
Created(f) == IF f \in DOMAIN g_created THEN g_created[f] ELSE <<>>
Elements(s) == {s[i] : i \in DOMAIN s}

CreateBackup(f, fault) ==
    LET r == create_backup(fs, dirs, f, now, fault)
    IN /\ fs' = r.files
       /\ dirs' = r.ds
       /\ last' = [Call("create_backup", f, "", r.res, r.val) EXCEPT
                      !.fault = fault]
       /\ g_track' = IF r.res = "ok" THEN Track(f, r.val, fs[f]) ELSE PNone
       /\ g_created' = IF fault # "none"
                       THEN \* not a call of an undisturbed series
                            <<>>
                       ELSE IF r.res = "ok" /\ r.val \notin Elements(Created(f))
                       THEN (f :> Append(Created(f), r.val)) @@ g_created
                       ELSE g_created
       /\ UNCHANGED <<roc, ctl, ld, urm, cb, icm, flow, inflight, password_attempts, now, g_pw_fails, g_all_fails,
                      g_ever_locked, g_was_reset, g_origin>>

RestoreBackup(b, target) ==
    LET r == restore_backup(fs, dirs, b, target)
    IN /\ fs' = r.files
       /\ dirs' = r.ds
       /\ last' = [Call("restore_backup", target, "", r.res, PNone) EXCEPT
                      !.path2 = b]
       /\ g_track' = IF /\ g_track.t = "track"
                        /\ ~g_track.restored
                        /\ g_track.bpath = b
                        /\ g_track.f = target
                     THEN [g_track EXCEPT !.restored = TRUE]
                     ELSE PNone
       /\ g_created' = <<>>
       /\ g_origin' = IF r.res = "ok" THEN Forget(g_origin, target) ELSE g_origin
       /\ UNCHANGED <<roc, ctl, ld, urm, cb, icm, flow, inflight, password_attempts, now, g_pw_fails, g_all_fails,
                      g_ever_locked, g_was_reset>>

ListBackups(f, fault) ==
    /\ last' = [Call("list_backups", f, "", "ok",
                     PList(list_backups(fs, dirs, f, fault))) EXCEPT
                   !.fault = fault]
    /\ g_track' = PNone
    /\ UNCHANGED <<roc, ctl, ld, urm, cb, icm, flow, inflight, fs, dirs, password_attempts, now, g_pw_fails, g_all_fails,
                   g_ever_locked, g_was_reset, g_origin, g_created>>

DeleteBackup(b, fault) ==
    /\ fs' = delete_backup(fs, b, fault).files
    /\ last' = [Call("delete_backup", b, "",
                     IF delete_backup(fs, b, fault).err = "none"
                     THEN "ok" ELSE "BackupError",
                     IF delete_backup(fs, b, fault).err = "none"
                     THEN PBool(TRUE) ELSE PNone) EXCEPT
                   !.fault = fault, !.existed = Exists(fs, b)]
    /\ g_track' = PNone
    /\ g_created' = <<>>
    /\ UNCHANGED <<roc, ctl, ld, urm, cb, icm, flow, inflight, dirs, password_attempts, now, g_pw_fails, g_all_fails,
                   g_ever_locked, g_was_reset, g_origin>>

CleanupAllBackups(f, fault) ==
    LET r == cleanup_all_backups(fs, dirs, f, fault)
    IN /\ fs' = r.files
       /\ last' = [Call("cleanup_all_backups", f, "", "ok", PNum(r.val)) EXCEPT
                      !.fault = fault]
       /\ g_track' = PNone
       /\ g_created' = <<>>
       /\ UNCHANGED <<roc, ctl, ld, urm, cb, icm, flow, inflight, dirs, password_attempts, now, g_pw_fails, g_all_fails,
                      g_ever_locked, g_was_reset, g_origin>>

\* the directory of the backups, as a path given to delete
BkDirPath == Path(Dir, BackupsDirName)

\* FileSystemMacroRepository.delete on the file that is backed up
RepoDelete(p, fault) ==
    \E r \in {repo_delete(fs, dirs, p, fault)} :
       /\ fs' = r.files
       /\ last' = [Call("repo_delete", p, "", r.res, r.val) EXCEPT
                      !.fault = fault,
                      !.existed = Exists(fs, p) \/ IsDir(dirs, p)]
       /\ g_origin' = IF r.res = "ok" THEN Forget(g_origin, p) ELSE g_origin
       /\ g_track' = PNone
       /\ UNCHANGED <<roc, ctl, ld, urm, cb, icm, flow, inflight, dirs, password_attempts, now, g_pw_fails,
                      g_all_fails, g_ever_locked, g_was_reset, g_created>>

\* time.time() moves on by a second
Tick ==
    /\ now < MaxTime
    /\ now' = now + 1
    /\ UNCHANGED <<roc, ctl, ld, urm, cb, icm, flow, inflight, fs, dirs, password_attempts, last, g_pw_fails, g_all_fails,
                   g_ever_locked, g_was_reset, g_origin, g_track, g_created>>

NextBackup ==
    \/ \E f \in BkFiles, fault \in Faults : CreateBackup(f, fault)
    \/ \E b \in BkBackupPaths, f \in BkFiles : RestoreBackup(b, f)
    \/ \E f \in BkFiles, fault \in Faults : ListBackups(f, fault)
    \/ \E b \in BkBackupPaths, fault \in Faults : DeleteBackup(b, fault)
    \/ \E f \in BkFiles, fault \in Faults : CleanupAllBackups(f, fault)
    \/ \E p \in BkFiles \cup {BkDirPath}, fault \in {"none", "unlink"} :
           RepoDelete(p, fault)
    \/ \E f \in BkFiles, n \in BkRawLens : EnvWriteRaw(f, n)
    \/ Tick

SpecBackup == Init /\ [][NextBackup]_vars

-----------------------------------------------------------------------------
(* Properties of the BackupManager (SpecBackup) *)

\* the backup files of f on disk, as create_backup names them
BackupFilesOf(f) ==
    Glob(fs, get_backup_directory(f), BaseName(f) \o BackupInfix, GmaJson)

\* the last n elements of a sequence, as a set
LastOf(s, n) == {s[i] : i \in {j \in DOMAIN s : j > Len(s) - n}}

\* C4: after max_backups + k successive create_backup calls on a path with
\* distinct timestamps, exactly max_backups backups of the path remain and
\* they are the most recent ones.
C4_RetentionKeepsNewest ==
    (/\ last.op = "create_backup"
     /\ last.res = "ok"
     /\ last.path \in DOMAIN g_created
     /\ Len(g_created[last.path]) >= max_backups)
    => /\ Cardinality(BackupFilesOf(last.path)) = max_backups
       /\ LastOf(g_created[last.path], max_backups) \subseteq BackupFilesOf(last.path)

\* C5: create_backup(f), then overwrites of f only, then
\* restore_backup(backup_path, f) leave f with the content it had when the
\* backup was made.
C5_BackupRestoreRoundTrip ==
    (g_track.t = "track" /\ g_track.restored)
    => /\ last.res = "ok"
       /\ fs[g_track.f] = g_track.content

\* the restore undid an overwrite with another content
C5_Witness ==
    /\ g_track.t = "track"
    /\ g_track.restored
    /\ g_track.over # PNone
    /\ g_track.over # g_track.content
    /\ last.op = "restore_backup"
    /\ fs[g_track.f] = g_track.content

\* what the last list_backups call returned
ListedPaths == {last.val.v[i].path : i \in DOMAIN last.val.v}

\* the backups create_backup made of f that are still on disk
LiveBackups(f) == {b \in Elements(Created(f)) : Exists(fs, b)}

\* C11: list_backups(f) returns an entry for every backup of f that
\* create_backup made and that is still there, newest first.
C11_ListBackupsCompleteNewestFirst ==
    (last.op = "list_backups" /\ last.fault = "none")
    => /\ LiveBackups(last.path) \subseteq ListedPaths
       /\ \A i, j \in DOMAIN last.val.v :
              i < j => last.val.v[i].timestamp >= last.val.v[j].timestamp

\* C15: create_backup of a path that does not exist and restore_backup from
\* a backup that does not exist fail with BackupError and change neither the
\* files nor the directories.
C15_MissingSourceFailsUnchanged ==
    [][/\ (last'.op = "create_backup" /\ ~Exists(fs, last'.path))
          => (last'.res = "BackupError" /\ fs' = fs /\ dirs' = dirs)
       /\ (last'.op = "restore_backup" /\ ~Exists(fs, last'.path2))
          => (last'.res = "BackupError" /\ fs' = fs /\ dirs' = dirs)]_vars

\* create_backup failed on a missing file and there is no backup directory
C15_Witness ==
    /\ last.op = "create_backup"
    /\ last.res = "BackupError"
    /\ ~Exists(fs, last.path)
    /\ get_backup_directory(last.path) \notin dirs
    /\ BackupFilesOf(last.path) = {}

\* C16: a failure while pruning is not propagated: when the file exists, so
\* that the copy is made, create_backup returns the path of the new backup,
\* which holds the content of the file, whatever the file system refuses
\* during the pruning.
C16_PruningFailureNotPropagated ==
    [][(last'.op = "create_backup" /\ Exists(fs, last'.path))
       => /\ last'.res = "ok"
          /\ last'.val \in BkBackupPaths
          /\ Exists(fs', last'.val)
          /\ fs'[last'.val] = fs[last'.path]]_vars

\* a backup was made although the listing of the backup directory failed
C16_Witness ==
    /\ last.op = "create_backup"
    /\ last.fault = "glob"
    /\ last.res = "ok"
    /\ Exists(fs, last.val)
    /\ get_backup_directory(last.path) \in dirs

\* C17: cleanup_all_backups(f) deletes every backup of f and returns how
\* many it deleted; when no deletion fails no backup of f remains.
C17_CleanupAllDeletesEveryBackup ==
    [][(/\ last'.op = "cleanup_all_backups"
        /\ last'.fault = "none"
        /\ now' = now)
       => /\ Glob(fs', get_backup_directory(last'.path),
                  BaseName(last'.path) \o BackupInfix, GmaJson) = {}
          /\ last'.val = PNum(Cardinality(BackupFilesOf(last'.path)))]_vars

\* C18: delete and delete_backup of a path that does not exist report
\* success and change nothing, and after a successful delete the path does
\* not exist, so that a second delete is such a call.
C18_DeleteIsIdempotent ==
    [][/\ (last'.op = "repo_delete" /\ ~Exists(fs, last'.path)
                                    /\ ~IsDir(dirs, last'.path))
          => (last'.res = "ok" /\ last'.val = PBool(TRUE)
              /\ fs' = fs /\ dirs' = dirs)
       /\ (last'.op = "delete_backup" /\ ~Exists(fs, last'.path))
          => (last'.res = "ok" /\ last'.val = PBool(TRUE)
              /\ fs' = fs /\ dirs' = dirs)
       /\ (last'.op = "repo_delete" /\ last'.res = "ok")
          => ~repo_exists(fs', dirs', last'.path)
       /\ (last'.op = "delete_backup" /\ last'.res = "ok")
          => ~Exists(fs', last'.path)]_vars

\* the file was backed up and deleted, and a further delete of it succeeded
C18_Witness ==
    /\ last.op = "repo_delete"
    /\ ~last.existed
    /\ last.res = "ok"
    /\ BackupFilesOf(last.path) # {}
    /\ ~repo_exists(fs, dirs, last.path)

\* C25: a successful create_backup adds one backup file and leaves the
\* content of the backups made before as it was; below max_backups the
\* number of backups of the path grows by one with each call.
C25_EachBackupIsNew ==
    [][(/\ last'.op = "create_backup"
        /\ last'.res = "ok"
        /\ last'.fault = "none"
        /\ now' = now)
       => /\ last'.val \notin BackupFilesOf(last'.path)
          /\ \A b \in BackupFilesOf(last'.path) :
                 Exists(fs', b) => fs'[b] = fs[b]
          /\ Cardinality(BackupFilesOf(last'.path)) < max_backups
             => Cardinality(Glob(fs', get_backup_directory(last'.path),
                                 BaseName(last'.path) \o BackupInfix, GmaJson))
                = Cardinality(BackupFilesOf(last'.path)) + 1]_vars

-----------------------------------------------------------------------------
(* InputCaptureManager (core/input_capture.py).                             *)
(* start_recording and stop_recording hold _recording_lock from their first *)
(* statement to their last, so each is one step. A callback of a listener   *)
(* thread tests _recording without the lock and appends with it: two steps. *)

\* the variables of the file managers, which the capture leaves alone
fileVars ==
    <<fs, dirs, password_attempts, g_pw_fails, g_all_fails, g_ever_locked,
      g_was_reset, g_origin, g_track, g_created, flow, inflight>>

\* the events one session is followed through
MaxEvents == 2
\* the listeners made in one behaviour
MaxListeners == 4

\* where start_recording can raise: in mouse.Listener, in keyboard.Listener
\* or in the start of the status thread
StartFaults == {"none", "mouse", "keyboard", "thread"}

MouseEvent(button, timestamp) ==
    [type |-> "mouse_click", key |-> button, timestamp |-> timestamp]

KeyboardEvent(type, key, timestamp) ==
    [type |-> type, key |-> key, timestamp |-> timestamp]

\* _convert_mouse_button: PNone for a button that is not in the map
convert_mouse_button(button) ==
    IF button \in {"left", "right", "middle"} THEN PStr(button) ELSE PNone

\* start_recording that does not look at _recording
start_recording_restarts(m, fault) ==
    [res |-> "ok",
     icm |-> [m EXCEPT !.recording = TRUE, !.recorded_events = <<>>, !.g_session = 0,
                       !.mouse_listener = m.made + 1,
                       !.keyboard_listener = m.made + 2,
                       !.running = @ \cup {m.made + 1, m.made + 2},
                       !.made = @ + 2, !.status_thread = TRUE]]

\* start_recording: [res, icm]
start_recording(m, fault) ==
    IF m.recording THEN [res |-> "ok", icm |-> m]
    ELSE IF fault = "mouse"
    THEN [res |-> "RuntimeError",
          icm |-> [m EXCEPT !.recording = FALSE, !.recorded_events = <<>>, !.g_session = 0]]
    ELSE IF fault = "keyboard"
    THEN [res |-> "RuntimeError",
          icm |-> [m EXCEPT !.recording = FALSE, !.recorded_events = <<>>, !.g_session = 0,
                            !.mouse_listener = m.made + 1,
                            !.running = @ \cup {m.made + 1},
                            !.made = @ + 1]]
    ELSE IF fault = "thread"
    THEN [res |-> "RuntimeError",
          icm |-> [m EXCEPT !.recording = FALSE, !.recorded_events = <<>>, !.g_session = 0,
                            !.mouse_listener = m.made + 1,
                            !.keyboard_listener = m.made + 2,
                            !.running = @ \cup {m.made + 1, m.made + 2},
                            !.made = @ + 2]]
    ELSE [res |-> "ok",
          icm |-> [m EXCEPT !.recording = TRUE, !.recorded_events = <<>>, !.g_session = 0,
                            !.mouse_listener = m.made + 1,
                            !.keyboard_listener = m.made + 2,
                            !.running = @ \cup {m.made + 1, m.made + 2},
                            !.made = @ + 2, !.status_thread = TRUE]]

\* stop_recording: the manager afterwards
stop_recording(m) ==
    IF ~m.recording THEN m
    ELSE [m EXCEPT !.recording = FALSE, !.status_thread = FALSE,
                   !.running = @ \ {m.mouse_listener, m.keyboard_listener},
                   !.mouse_listener = 0, !.keyboard_listener = 0]

\* get_recorded_events
get_recorded_events(m) == m.recorded_events

\* is_recording
is_recording(m) == m.recording

StartRecording(fault) ==
    /\ icm.made + 2 <= MaxListeners
    /\ \E r \in {start_recording(icm, fault)} :
          /\ icm' = r.icm
          /\ last' = [Call("start_recording", NoPath, "", r.res, PNone) EXCEPT
                         !.fault = fault, !.before = PBool(icm.recording)]
    /\ UNCHANGED <<roc, ctl, ld, urm, cb, now, fileVars>>

StopRecording ==
    /\ icm' = stop_recording(icm)
    /\ last' = [Call("stop_recording", NoPath, "", "ok", PNone) EXCEPT
                   !.before = PBool(icm.recording)]
    /\ UNCHANGED <<roc, ctl, ld, urm, cb, now, fileVars>>

\* the events recorded and about to be recorded
Pending == {k \in {"mouse", "keyboard"} : cb[k] # PNone}

\* _on_mouse_click up to "with self._recording_lock"
OnMouseClick(button, pressed) ==
    /\ cb.mouse = PNone
    /\ Len(icm.recorded_events) + Cardinality(Pending) < MaxEvents
    /\ cb' = IF ~icm.recording \/ ~pressed \/ convert_mouse_button(button) = PNone
             THEN cb
             ELSE [cb EXCEPT !.mouse =
                      MouseEvent(convert_mouse_button(button).v, now)]
    /\ last' = [Call("on_mouse_click", NoPath, "", "ok", PNone) EXCEPT
                   !.before = PBool(icm.recording)]
    /\ UNCHANGED <<roc, ctl, ld, urm, icm, now, fileVars>>

\* _on_key_press up to "with self._recording_lock"; ESC stops the recording
OnKeyPress(key) ==
    /\ cb.keyboard = PNone
    /\ Len(icm.recorded_events) + Cardinality(Pending) < MaxEvents
    /\ cb' = IF ~icm.recording \/ key = "esc" THEN cb
             ELSE [cb EXCEPT !.keyboard = KeyboardEvent("key_press", key, now)]
    /\ icm' = IF icm.recording /\ key = "esc" THEN stop_recording(icm) ELSE icm
    /\ last' = [Call("on_key_press", NoPath, key, "ok", PNone) EXCEPT
                   !.before = PBool(icm.recording)]
    /\ UNCHANGED <<roc, ctl, ld, urm, now, fileVars>>

\* _on_key_release up to "with self._recording_lock"
OnKeyRelease(key) ==
    /\ cb.keyboard = PNone
    /\ Len(icm.recorded_events) + Cardinality(Pending) < MaxEvents
    /\ cb' = IF ~icm.recording THEN cb
             ELSE [cb EXCEPT !.keyboard = KeyboardEvent("key_release", key, now)]
    /\ last' = [Call("on_key_release", NoPath, key, "ok", PNone) EXCEPT
                   !.before = PBool(icm.recording)]
    /\ UNCHANGED <<roc, ctl, ld, urm, icm, now, fileVars>>

\* with self._recording_lock: self._recorded_events.append(event)
AppendEvent(k) ==
    /\ cb[k] # PNone
    /\ icm' = [icm EXCEPT !.recorded_events = Append(@, cb[k]),
                          !.g_session = IF icm.recording THEN @ + 1 ELSE @]
    /\ cb' = [cb EXCEPT ![k] = PNone]
    /\ last' = [Call("append_event", NoPath, "", "ok", PNone) EXCEPT
                   !.before = PBool(icm.recording)]
    /\ UNCHANGED <<roc, ctl, ld, urm, now, fileVars>>

MouseButtonInputs == {"left", "x1"}
KeyInputs == {"a", "esc"}

NextCapture ==
    \/ \E fault \in StartFaults : StartRecording(fault)
    \/ StopRecording
    \/ \E button \in MouseButtonInputs, pressed \in BOOLEAN :
           OnMouseClick(button, pressed)
    \/ \E key \in KeyInputs : OnKeyPress(key)
    \/ \E key \in KeyInputs : OnKeyRelease(key)
    \/ \E k \in {"mouse", "keyboard"} : AppendEvent(k)

SpecCapture == Init /\ [][NextCapture]_vars

\* C21: while the manager is not recording, no event is added to the list of
\* recorded events.
C21_NoEventWhileNotRecording ==
    [][~icm.recording => Len(icm'.recorded_events) <= Len(icm.recorded_events)]_vars

\* C22: start_recording while recording makes no listener and keeps the
\* recorded events, and stop_recording while not recording changes nothing;
\* neither raises.
C22_StartStopIdempotent ==
    [][/\ (last'.op = "start_recording" /\ icm.recording)
          => (icm' = icm /\ last'.res = "ok")
       /\ (last'.op = "stop_recording" /\ ~icm.recording)
          => (icm' = icm /\ last'.res = "ok")]_vars

\* start_recording was called while recording, with an event on the list
C22_Witness ==
    /\ last.op = "start_recording"
    /\ last.before = PBool(TRUE)
    /\ icm.recording
    /\ icm.recorded_events # <<>>
    /\ icm.made = 2

\* C29: when the manager is not recording, none of the listeners it started
\* is running.
C29_NoListenerWhenNotRecording ==
    ~is_recording(icm) => icm.running = {}

-----------------------------------------------------------------------------
(* UndoRedoManager (ui/visual_editor.py). history[i] of the code is          *)
(* history[i + 1] here; current_index keeps the values of the code.          *)

\* UndoRedoManager(max_history=3)
max_history == 3

\* save_state that moves current_index on after dropping the oldest state
save_state_always_increments(u, operations) ==
    LET kept == IF u.current_index < Len(u.history) - 1
                THEN SubSeq(u.history, 1, u.current_index + 1)
                ELSE u.history
        added == Append(kept, operations)
    IN IF Len(added) > max_history
       THEN [history |-> Tail(added), current_index |-> u.current_index + 1]
       ELSE [history |-> added, current_index |-> u.current_index + 1]

\* save_state: the manager afterwards
save_state(u, operations) ==
    LET kept == IF u.current_index < Len(u.history) - 1
                THEN SubSeq(u.history, 1, u.current_index + 1)
                ELSE u.history
        added == Append(kept, operations)
    IN IF Len(added) > max_history
       THEN [history |-> Tail(added), current_index |-> u.current_index]
       ELSE [history |-> added, current_index |-> u.current_index + 1]

\* undo: [val, urm]
undo(u) ==
    IF u.current_index > 0
    THEN [val |-> PList(u.history[u.current_index]),
          urm |-> [u EXCEPT !.current_index = @ - 1]]
    ELSE [val |-> PNone, urm |-> u]

\* redo: [val, urm]
redo(u) ==
    IF u.current_index < Len(u.history) - 1
    THEN [val |-> PList(u.history[u.current_index + 2]),
          urm |-> [u EXCEPT !.current_index = @ + 1]]
    ELSE [val |-> PNone, urm |-> u]

can_undo(u) == u.current_index > 0

can_redo(u) == u.current_index < Len(u.history) - 1

\* the operation lists of the editor that are saved
EditorStates == {<<ClickOp>>, <<KeyOp>>, <<KeyOp, ClickOp>>}

SaveState(operations) ==
    /\ urm' = save_state(urm, operations)
    /\ last' = [Call("save_state", NoPath, "", "ok", PNone) EXCEPT
                   !.before = PNum(Len(urm.history))]
    /\ UNCHANGED <<roc, ctl, ld, icm, cb, now, fileVars>>

Undo ==
    /\ urm' = undo(urm).urm
    /\ last' = [Call("undo", NoPath, "", "ok", undo(urm).val) EXCEPT
                   !.before = PNum(Len(urm.history))]
    /\ UNCHANGED <<roc, ctl, ld, icm, cb, now, fileVars>>

Redo ==
    /\ urm' = redo(urm).urm
    /\ last' = [Call("redo", NoPath, "", "ok", redo(urm).val) EXCEPT
                   !.before = PNum(Len(urm.history))]
    /\ UNCHANGED <<roc, ctl, ld, icm, cb, now, fileVars>>

NextUndo ==
    \/ \E operations \in EditorStates : SaveState(operations)
    \/ Undo
    \/ Redo

SpecUndo == Init /\ [][NextUndo]_vars

\* C23: after every save_state, current_index is len(history) - 1 and
\* len(history) is at most max_history: the history is within its limit and
\* there is nothing to redo.
C23_SaveStateInvariant ==
    last.op = "save_state"
    => /\ urm.current_index = Len(urm.history) - 1
       /\ Len(urm.history) <= max_history
       /\ ~can_redo(urm)

\* a state was saved when the history was full
C23_Witness ==
    /\ last.op = "save_state"
    /\ last.before = PNum(max_history)
    /\ Len(urm.history) = max_history
    /\ urm.current_index = max_history - 1

-----------------------------------------------------------------------------
(* load_macro_file of one MacroFileManager called from two threads. The     *)
(* manager has no lock: the test of the counter, the decryption, the read   *)
(* of the counter and the store of the incremented value are steps of their *)
(* own, and the steps of the two threads interleave.                        *)

\* the failed decryptions a behaviour is followed through
MaxFailedDecrypts == 4

\* the store of _increment_password_attempts, counting twice
store_incremented_twice(att, file_path, seen) == (file_path :> (seen + 2)) @@ att

\* self._password_attempts[file_path] = <the value read> + 1
store_incremented(att, file_path, seen) == (file_path :> (seen + 1)) @@ att

\* load_macro_file enters: _check_password_attempts
LdCheck(t, p, pw) ==
    /\ ld.thread[t].pc = "idle"
    /\ ld.failed < MaxFailedDecrypts
    /\ ld' = IF check_password_attempts(password_attempts, p) THEN ld
             ELSE [ld EXCEPT !.thread[t] =
                      [pc |-> "decrypt", path |-> p, pw |-> pw, seen |-> 0]]
    /\ last' = Call("ld_check", p, pw,
                    IF check_password_attempts(password_attempts, p)
                    THEN "max_attempts" ELSE "ok", PNone)
    /\ UNCHANGED <<roc, ctl, urm, icm, cb, now, fileVars>>

\* the file is read and decrypted; a success removes the counter of the path
LdDecrypt(t) ==
    /\ ld.thread[t].pc = "decrypt"
    /\ \E r \in {IF Exists(fs, ld.thread[t].path)
                 THEN decrypt_file(ld.thread[t].pw, fs[ld.thread[t].path])
                 ELSE [err |-> "load_failed", val |-> PNone, kdf |-> FALSE]} :
          /\ ld' = IF r.err \in {"none", "load_failed"}
                   THEN [ld EXCEPT !.thread[t] = IdleLoad,
                                   !.unlocked = @ \/ r.err = "none"]
                   ELSE [ld EXCEPT !.thread[t].pc = "read_counter",
                                   !.failed = @ + 1]
          /\ password_attempts' =
                 IF r.err = "none"
                 THEN reset_password_attempts(password_attempts, ld.thread[t].path)
                 ELSE password_attempts
          /\ last' = [Call("ld_decrypt", ld.thread[t].path, ld.thread[t].pw,
                           IF r.err = "none" THEN "ok" ELSE r.err, r.val) EXCEPT
                         !.kdf = r.kdf]
    /\ UNCHANGED <<roc, ctl, urm, icm, cb, now, fs, dirs, g_pw_fails, g_all_fails,
                   g_ever_locked, g_was_reset, g_origin, g_track, g_created,
                   flow, inflight>>

\* _increment_password_attempts: self._password_attempts.get(file_path, 0)
LdReadCounter(t) ==
    /\ ld.thread[t].pc = "read_counter"
    /\ ld' = [ld EXCEPT !.thread[t].pc = "store_counter",
                        !.thread[t].seen =
                            Attempts(password_attempts, ld.thread[t].path)]
    /\ last' = Call("ld_read_counter", ld.thread[t].path, "", "ok", PNone)
    /\ UNCHANGED <<roc, ctl, urm, icm, cb, now, fileVars>>

\* _increment_password_attempts: the store, and the exception is raised again
LdStoreCounter(t) ==
    /\ ld.thread[t].pc = "store_counter"
    /\ password_attempts' = store_incremented(password_attempts,
                                ld.thread[t].path, ld.thread[t].seen)
    /\ ld' = [ld EXCEPT !.thread[t] = IdleLoad]
    /\ last' = Call("ld_store_counter", ld.thread[t].path, "", "ok", PNone)
    /\ UNCHANGED <<roc, ctl, urm, icm, cb, now, fs, dirs, g_pw_fails, g_all_fails,
                   g_ever_locked, g_was_reset, g_origin, g_track, g_created,
                   flow, inflight>>

NextLoads ==
    \/ FmSave(PathM, GoodPassword, DataM1, 0)
    \/ \E t \in LoadThreads, pw \in {GoodPassword, OtherPassword} :
           LdCheck(t, PathM, pw)
    \/ \E t \in LoadThreads : LdDecrypt(t)
    \/ \E t \in LoadThreads : LdReadCounter(t)
    \/ \E t \in LoadThreads : LdStoreCounter(t)

SpecLoads == Init /\ [][NextLoads]_vars

\* no thread is inside load_macro_file
AllLoadsReturned == \A t \in LoadThreads : ld.thread[t].pc = "idle"

\* C24: concurrent loads lose counts but invent none: the counter of the path
\* is at most the number of decryptions that have failed.
\* That the bound is not reached is what C24_Witness shows.
C24_CounterAtMostFailedDecrypts ==
    Attempts(password_attempts, PathM) <= ld.failed

\* four decryptions of the path have failed and none has succeeded, every
\* load has returned, and the counter is below the limit: increments of
\* concurrent loads were lost
C24_Witness ==
    /\ AllLoadsReturned
    /\ ~ld.unlocked
    /\ ld.failed > MAX_ATTEMPTS
    /\ Attempts(password_attempts, PathM) < MAX_ATTEMPTS
    /\ ~check_password_attempts(password_attempts, PathM)

-----------------------------------------------------------------------------
(* RecordingController (ui/recording_controller.py).                        *)
(* start_recording runs on the caller's thread; stop_recording is split at  *)
(* its join of the monitor thread, which is taken to return when the        *)
(* monitor has ended; _monitor_recording is split at each read of a field   *)
(* that the other thread writes. A session is begun when the monitor of the *)
(* session before has ended.                                                *)

\* the sessions one controller is followed through
MaxSessions == 2

\* create_mouse_click_operation and create_key_operation, as
\* _convert_event_to_operation calls them
create_mouse_click_operation(button, timestamp) ==
    [operation_type |-> "mouse_click", key |-> button, action |-> "click",
     timestamp |-> timestamp]

create_key_operation(key, action, timestamp) ==
    [operation_type |-> IF action = "press" THEN "key_press" ELSE "key_release",
     key |-> key, action |-> action, timestamp |-> timestamp]

\* _convert_event_to_operation
convert_event_to_operation(event) ==
    IF event.type = "mouse_click"
    THEN create_mouse_click_operation(
             IF event.key \in {"left", "right", "middle"} THEN event.key
             ELSE "left", event.timestamp)
    ELSE create_key_operation(
             event.key, IF event.type = "key_press" THEN "press" ELSE "release",
             event.timestamp)

\* the loop of _process_captured_events over events, from the set of
\* processed timestamps seen and the operations ops: [seen, ops]
RECURSIVE process_events(_, _, _)
process_events(events, seen, ops) ==
    IF events = <<>> THEN [seen |-> seen, ops |-> ops]
    ELSE IF Head(events).timestamp \in seen
    THEN process_events(Tail(events), seen, ops)
    ELSE process_events(Tail(events), seen \cup {Head(events).timestamp},
                        Append(ops, convert_event_to_operation(Head(events))))

\* _process_captured_events: the controller afterwards
process_captured_events(c, m) ==
    IF c.current_recording = PNone THEN c
    ELSE [c EXCEPT
            !.processed_event_timestamps =
                process_events(get_recorded_events(m), @,
                               c.current_recording.v).seen,
            !.current_recording =
                PList(process_events(get_recorded_events(m),
                                     c.processed_event_timestamps,
                                     c.current_recording.v).ops)]

\* _cleanup_recording
cleanup_recording(c) ==
    [c EXCEPT !.current_recording = PNone, !.is_recording = FALSE,
              !.thread = "none", !.stop_event = FALSE,
              !.processed_event_timestamps = {}, !.esc_terminated = FALSE]

\* _handle_recording_completion: one more completion handled
handle_recording_completion(c) == [c EXCEPT !.g_handled = @ + 1]

\* RecordingController.start_recording
CtlStartRecording(fault) ==
    /\ ctl.main = "idle"
    /\ ctl.is_recording \/ ctl.thread \in {"none", "dead"}
    /\ ctl.g_sessions < MaxSessions
    /\ icm.made + 2 <= MaxListeners
    /\ IF ctl.is_recording
       THEN /\ UNCHANGED <<ctl, icm>>
            /\ last' = Call("ctl_start_recording", NoPath, "", "False", PNone)
       ELSE \E r \in {start_recording(icm, fault)} :
              /\ icm' = r.icm
              /\ IF r.res = "ok"
                 THEN /\ ctl' = [ctl EXCEPT
                                   !.current_recording = PList(<<>>),
                                   !.processed_event_timestamps = {},
                                   !.is_recording = TRUE,
                                   !.stop_event = FALSE,
                                   !.thread = "wait",
                                   !.g_sessions = @ + 1,
                                   !.g_handled = 0]
                      /\ last' = Call("ctl_start_recording", NoPath, "", "True",
                                      PNone)
                 ELSE /\ ctl' = cleanup_recording(
                                   [ctl EXCEPT
                                      !.current_recording = PList(<<>>),
                                      !.processed_event_timestamps = {}])
                      /\ last' = Call("ctl_start_recording", NoPath, "", "False",
                                      PNone)
    /\ UNCHANGED <<roc, ld, urm, cb, now, fileVars>>

\* RecordingController.stop_recording up to the join of the monitor thread
CtlStopRecording ==
    /\ ctl.main = "idle"
    /\ IF ~ctl.is_recording
       THEN /\ UNCHANGED <<ctl, icm>>
            /\ last' = Call("ctl_stop_recording", NoPath, "", "None", PNone)
       ELSE /\ ctl' = [ctl EXCEPT !.is_recording = FALSE, !.stop_event = TRUE,
                                  !.main = "join"]
            /\ icm' = stop_recording(icm)
            /\ last' = Call("ctl_stop_recording", NoPath, "", "join", PNone)
    /\ UNCHANGED <<roc, ld, urm, cb, now, fileVars>>

\* RecordingController.stop_recording from the return of the join
CtlStopRecordingReturn ==
    /\ ctl.main = "join"
    /\ ctl.thread \in {"none", "dead"}
    /\ ctl' = IF ctl.current_recording # PNone
              THEN handle_recording_completion(
                       [cleanup_recording(ctl) EXCEPT !.main = "idle"])
              ELSE [cleanup_recording(ctl) EXCEPT !.main = "idle"]
    /\ last' = Call("ctl_stop_recording_return", NoPath, "", "ok",
                    ctl.current_recording)
    /\ UNCHANGED <<roc, ld, urm, icm, cb, now, fileVars>>

\* _monitor_recording: self._stop_event.wait(0.1)
MonitorWait ==
    /\ ctl.thread = "wait"
    /\ ctl' = [ctl EXCEPT !.thread = IF ctl.stop_event THEN "exit" ELSE "flag"]
    /\ last' = Call("monitor_wait", NoPath, "", "ok", PNone)
    /\ UNCHANGED <<roc, ld, urm, icm, cb, now, fileVars>>

\* _monitor_recording: if not self.is_recording: break
MonitorFlag ==
    /\ ctl.thread = "flag"
    /\ ctl' = [ctl EXCEPT !.thread = IF ~ctl.is_recording THEN "exit"
                                     ELSE "capture"]
    /\ last' = Call("monitor_flag", NoPath, "", "ok", PNone)
    /\ UNCHANGED <<roc, ld, urm, icm, cb, now, fileVars>>

\* _monitor_recording: if not self.input_capture.is_recording(): ... break
MonitorCapture ==
    /\ ctl.thread = "capture"
    /\ ctl' = IF ~is_recording(icm)
              THEN [ctl EXCEPT !.esc_terminated = TRUE, !.is_recording = FALSE,
                               !.stop_event = TRUE, !.thread = "exit"]
              ELSE [ctl EXCEPT !.thread = "process"]
    /\ last' = Call("monitor_capture", NoPath, "", "ok", PNone)
    /\ UNCHANGED <<roc, ld, urm, icm, cb, now, fileVars>>

\* _monitor_recording: self._process_captured_events()
MonitorProcess ==
    /\ ctl.thread = "process"
    /\ ctl' = [process_captured_events(ctl, icm) EXCEPT !.thread = "wait"]
    /\ last' = Call("monitor_process", NoPath, "", "ok", PNone)
    /\ UNCHANGED <<roc, ld, urm, icm, cb, now, fileVars>>

\* _monitor_recording after the loop
MonitorExit ==
    /\ ctl.thread = "exit"
    /\ IF ctl.esc_terminated /\ ctl.current_recording # PNone
       THEN /\ ctl' = handle_recording_completion([ctl EXCEPT !.thread = "dead"])
            /\ last' = Call("monitor_exit", NoPath, "", "ok",
                            ctl.current_recording)
       ELSE /\ ctl' = [ctl EXCEPT !.thread = "dead"]
            /\ last' = Call("monitor_exit", NoPath, "", "ok", PNone)
    /\ UNCHANGED <<roc, ld, urm, icm, cb, now, fileVars>>

NextController ==
    \/ \E fault \in StartFaults : CtlStartRecording(fault)
    \/ CtlStopRecording
    \/ CtlStopRecordingReturn
    \/ MonitorWait
    \/ MonitorFlag
    \/ MonitorCapture
    \/ MonitorProcess
    \/ MonitorExit
    \/ \E button \in MouseButtonInputs, pressed \in BOOLEAN :
           OnMouseClick(button, pressed)
    \/ \E key \in KeyInputs : OnKeyPress(key)
    \/ \E k \in {"mouse", "keyboard"} : AppendEvent(k)
    \/ Tick

SpecController == Init /\ [][NextController]_vars

\* a session has been begun and has ended: neither thread is inside the
\* controller
SessionOver ==
    /\ ctl.g_sessions > 0
    /\ ~ctl.is_recording
    /\ ctl.main = "idle"
    /\ ctl.thread \in {"none", "dead"}

\* C27: _handle_recording_completion runs exactly once for each session
\* begun by a successful start_recording: never more than once, and once
\* when the session has ended, whether by stop_recording or by ESC.
C27_CompletionHandledOnce ==
    /\ ctl.g_handled <= 1
    /\ SessionOver => ctl.g_handled = 1

\* one operation for each event, in the order of the events
RECURSIVE OperationsOf(_)
OperationsOf(events) ==
    IF events = <<>> THEN <<>>
    ELSE <<convert_event_to_operation(Head(events))>>
             \o OperationsOf(Tail(events))

IsClickOrPress(operation) ==
    operation.operation_type \in {"mouse_click", "key_press"}

\* the events that the manager recorded while it was recording
SessionEvents == SubSeq(icm.recorded_events, 1, icm.g_session)

\* C28: when the completion of a session is handled, the completed recording
\* holds one operation, in capture order, for every mouse click and key press
\* that the manager recorded during the session.
C28_NoCapturedInputLost ==
    (last.op \in {"ctl_stop_recording_return", "monitor_exit"}
        /\ last.val # PNone)
    => SelectSeq(last.val.v, IsClickOrPress)
           = SelectSeq(OperationsOf(SessionEvents), IsClickOrPress)

-----------------------------------------------------------------------------
(* FileDialogManager.save_macro (ui/dialogs/file_dialog_manager.py).        *)
(* The handler runs on the one UI thread: one step. The file dialog gives   *)
(* NoPath and the password dialog "" when the user cancels.                 *)

\* what the file system can refuse during save_macro:
\*   "copy" : shutil.copy2 of create_backup raises OSError
SaveFaults == {"none", "copy"}

\* save_macro with the repository save before the backup
save_macro_save_first(files, ds, recording, file_path, password, clock, fault) ==
    IF file_path = NoPath \/ password = ""
    THEN [res |-> "False", files |-> files, ds |-> ds, calls |-> <<>>,
          backup |-> PNone]
    ELSE LET s == repo_save(files, ds, recording, file_path, password, 0, 0)
             b == IF Exists(files, file_path)
                  THEN create_backup(s.files, s.ds, file_path, clock, fault)
                  ELSE [res |-> "none", files |-> s.files, ds |-> s.ds]
         IN [res |-> IF s.res = "ok" THEN "True" ELSE "False",
            files |-> b.files, ds |-> b.ds,
            calls |-> <<"save">> \o (IF Exists(files, file_path)
                                     THEN <<"create_backup">> ELSE <<>>),
            backup |-> IF b.res = "none" THEN PNone ELSE PStr(b.res)]

\* save_macro: [res, files, ds, calls, backup], calls being the calls made of
\* BackupManager.create_backup and of repository.save, in their order, and
\* backup how create_backup ended
save_macro(files, ds, recording, file_path, password, clock, fault) ==
    IF file_path = NoPath \/ password = ""
    THEN [res |-> "False", files |-> files, ds |-> ds, calls |-> <<>>,
          backup |-> PNone]
    ELSE LET b == IF Exists(files, file_path)
                  THEN create_backup(files, ds, file_path, clock, fault)
                  ELSE [res |-> "none", files |-> files, ds |-> ds]
             s == repo_save(b.files, b.ds, recording, file_path, password, 0, 0)
         IN [res |-> IF s.res = "ok" THEN "True" ELSE "False",
            files |-> s.files, ds |-> s.ds,
            calls |-> (IF Exists(files, file_path)
                       THEN <<"create_backup">> ELSE <<>>) \o <<"save">>,
            backup |-> IF b.res = "none" THEN PNone ELSE PStr(b.res)]

SavePaths == {NoPath, PathM}
SavePasswords == {"", GoodPassword, ShortPassword}

SaveMacro(recording, file_path, password, fault) ==
    /\ \E r \in {save_macro(fs, dirs, recording, file_path, password, now, fault)} :
          /\ fs' = r.files
          /\ dirs' = r.ds
          /\ last' = [Call("save_macro", file_path, password, r.res,
                           PList(r.calls)) EXCEPT
                         !.fault = fault, !.before = r.backup,
                         !.existed = file_path # NoPath /\ Exists(fs, file_path)]
    /\ UNCHANGED <<roc, ctl, ld, urm, cb, icm, flow, inflight, password_attempts,
                   now, g_pw_fails, g_all_fails, g_ever_locked, g_was_reset,
                   g_origin, g_track, g_created>>

NextSave ==
    \/ \E recording \in Recordings, file_path \in SavePaths,
          password \in SavePasswords, fault \in SaveFaults :
           SaveMacro(recording, file_path, password, fault)
    \/ Tick

SpecSave == Init /\ [][NextSave]_vars

\* C26: when save_macro gets a path and a password and the target exists,
\* create_backup is called, and ends, before repository.save is called:
\* create_backup then save are the calls made, a backup that was made holds
\* what the target held before the save, and when create_backup raises
\* BackupError the save runs all the same and succeeds with a valid password.
C26_BackupBeforeSave ==
    [][(/\ last'.op = "save_macro"
        /\ now' = now
        /\ last'.path # NoPath
        /\ last'.pw # ""
        /\ Exists(fs, last'.path))
       => /\ last'.val = PList(<<"create_backup", "save">>)
          /\ last'.before \in {PStr("ok"), PStr("BackupError")}
          /\ last'.before = PStr("ok")
             => fs'[generate_backup_path(last'.path, now)] = fs[last'.path]
          /\ ~validate_password(last'.pw)
             => /\ last'.res = "True"
                /\ \E recording \in Recordings :
                      fs'[last'.path]
                          = repo_save(fs, dirs, recording, last'.path,
                                      last'.pw, 0, 0).files[last'.path]]_vars

\* save_macro saved over an existing file after create_backup had raised
C26_Witness ==
    /\ last.op = "save_macro"
    /\ last.existed
    /\ last.before = PStr("BackupError")
    /\ last.res = "True"
    /\ last.val = PList(<<"create_backup", "save">>)

-----------------------------------------------------------------------------
(* OperationReorderCommand (ui/commands/operation_reorder_command.py).      *)
(* Indices are those of Python, from 0; an operation block is known by the  *)
(* number it was added under.                                               *)

\* the blocks one macro is followed through
MaxOperations == 4

\* list.pop(i) and list.insert(i, x) for 0 <= i
ListPop(l, i) == SubSeq(l, 1, i) \o SubSeq(l, i + 2, Len(l))
ListInsert(l, i, x) ==
    SubSeq(l, 1, Min(i, Len(l))) \o <<x>> \o SubSeq(l, Min(i, Len(l)) + 1, Len(l))

\* _validate_indices: TRUE when it raises ValueError
validate_indices_raises(operations, source_index, target_index) ==
    \/ ~(0 <= source_index /\ source_index < Len(operations))
    \/ ~(0 <= target_index /\ target_index < Len(operations))
    \/ source_index = target_index

\* execute: the operation list afterwards
execute(operations, source_index, target_index) ==
    ListInsert(ListPop(operations, source_index),
               IF source_index < target_index THEN target_index - 1
               ELSE target_index,
               operations[source_index + 1])

\* undo: the operation list afterwards, the moved block being at current_index
undo_reorder(operations, current_index, source_index) ==
    ListInsert(ListPop(operations, current_index), source_index,
               operations[current_index + 1])

\* MacroRecording.add_operation of a new block
AddOperation ==
    /\ Len(roc.operations) < MaxOperations
    /\ roc' = [roc EXCEPT !.operations = Append(@, Len(@) + 1)]
    /\ last' = Call("add_operation", NoPath, "", "ok", PNone)
    /\ UNCHANGED <<ctl, ld, urm, icm, cb, now, fileVars>>

\* OperationReorderCommand.__init__
NewReorderCommand(source_index, target_index) ==
    /\ IF validate_indices_raises(roc.operations, source_index, target_index)
       THEN /\ roc' = roc
            /\ last' = Call("reorder_init", NoPath, "", "ValueError", PNone)
       ELSE /\ roc' = [roc EXCEPT !.command =
                          [source_index |-> source_index,
                           target_index |-> target_index,
                           executed |-> FALSE, moved_operation |-> PNone]]
            /\ last' = Call("reorder_init", NoPath, "", "ok", PNone)
    /\ UNCHANGED <<ctl, ld, urm, icm, cb, now, fileVars>>

\* OperationReorderCommand.execute
ReorderExecute ==
    /\ roc.command # PNone
    /\ roc' = [roc EXCEPT
                 !.operations = execute(@, roc.command.source_index,
                                        roc.command.target_index),
                 !.command.moved_operation =
                     PNum(roc.operations[roc.command.source_index + 1]),
                 !.command.executed = TRUE]
    /\ last' = [Call("reorder_execute", NoPath, "", "True", PNone) EXCEPT
                   !.before = PList(roc.operations)]
    /\ UNCHANGED <<ctl, ld, urm, icm, cb, now, fileVars>>

\* where the block is in the list
IndexOf(l, x) == CHOOSE i \in 0..(Len(l) - 1) : l[i + 1] = x

\* OperationReorderCommand.undo
ReorderUndo ==
    /\ roc.command # PNone
    /\ IF ~roc.command.executed \/ roc.command.moved_operation = PNone
       THEN /\ roc' = roc
            /\ last' = Call("reorder_undo", NoPath, "", "False", PNone)
       ELSE /\ roc' = [roc EXCEPT
                         !.operations =
                             undo_reorder(@, IndexOf(@, roc.command.moved_operation.v),
                                          roc.command.source_index),
                         !.command.executed = FALSE]
            /\ last' = [Call("reorder_undo", NoPath, "", "True", PNone) EXCEPT
                           !.before = PList(roc.operations)]
    /\ UNCHANGED <<ctl, ld, urm, icm, cb, now, fileVars>>

ReorderIndices == -1..MaxOperations

NextReorder ==
    \/ AddOperation
    \/ \E source_index \in ReorderIndices, target_index \in ReorderIndices :
           NewReorderCommand(source_index, target_index)
    \/ ReorderExecute
    \/ ReorderUndo

SpecReorder == Init /\ [][NextReorder]_vars

\* C30: after execute has returned True, the block that was at source_index
\* is at target_index, and the other blocks are in the order they were in.
C30_MovedBlockAtTargetIndex ==
    (last.op = "reorder_execute" /\ last.res = "True")
    => /\ roc.operations[roc.command.target_index + 1]
              = last.before.v[roc.command.source_index + 1]
       /\ ListPop(roc.operations, roc.command.target_index)
              = ListPop(last.before.v, roc.command.source_index)

====
